---------------------------- MODULE Spec2Model ----------------------------
(***************************************************************************)
(* A model of the replaceableParts engine: engine(state, rules, action),   *)
(* its tick pipeline simulateTick and its command handlers, translated     *)
(* from the engine source.  The engine is a pure function; the model       *)
(* threads one state value through successive engine() calls.              *)
(*                                                                         *)
(* Numbers: market multipliers are kept in hundredths (2.0 is 200), and    *)
(* research weights in halves (1 + 0.5k is 2 + k), so that every quantity  *)
(* is an integer.  The generator works on 32-bit words kept as two 16-bit  *)
(* halves <<hi, lo>>.                                                      *)
(***************************************************************************)
EXTENDS Integers, Sequences, FiniteSets, TLC

\* state:   the state value threaded through the engine() calls
\* error:   the error the last engine() call returned, NULL for none
\* calls:   the number of engine() calls made so far
\* replica: the state of a second run given the same commands
VARIABLES state, error, calls, replica

vars == <<state, error, calls, replica>>

(***************************************************************************)
(* Bounds of the model.                                                    *)
(***************************************************************************)
\* engine() calls made in one run
MaxCalls == 3

NULL == "null"

\* const x = e; F(x): e is evaluated once and the value named
Bind(e, F(_)) == CHOOSE r \in {F(x) : x \in {e}} : TRUE

(***************************************************************************)
(* 32-bit arithmetic of createRNG (Mulberry32).                            *)
(***************************************************************************)
RECURSIVE XorBits(_, _, _)
XorBits(a, b, n) ==
    IF n = 0 THEN 0
    ELSE (((a % 2) + (b % 2)) % 2) + 2 * XorBits(a \div 2, b \div 2, n - 1)

RECURSIVE OrBits(_, _, _)
OrBits(a, b, n) ==
    IF n = 0 THEN 0
    ELSE (IF (a % 2) = 1 \/ (b % 2) = 1 THEN 1 ELSE 0)
         + 2 * OrBits(a \div 2, b \div 2, n - 1)

\* the word of a signed 32-bit integer (x | 0 read as unsigned halves)
ToWord(s) == <<(s \div 65536) % 65536, s % 65536>>

\* the signed 32-bit integer of a word (w | 0)
ToInt32(w) ==
    IF w[1] >= 32768 THEN (w[1] - 65536) * 65536 + w[2]
    ELSE w[1] * 65536 + w[2]

Xor32(a, b) == <<XorBits(a[1], b[1], 16), XorBits(a[2], b[2], 16)>>

\* c | w for a constant c < 65536
OrLow(c, w) == <<w[1], OrBits(c, w[2], 16)>>

Add32(a, b) ==
    LET lo == a[2] + b[2]
    IN  <<(a[1] + b[1] + (lo \div 65536)) % 65536, lo % 65536>>

\* w >>> k, 0 < k < 16
Pow2(k) == 2 ^ k
Shr32(w, k) ==
    <<w[1] \div Pow2(k), ((w[1] % Pow2(k)) * Pow2(16 - k)) + (w[2] \div Pow2(k))>>

\* the full product of two 16-bit numbers, as a word
Mul16(a, b) ==
    LET p1 == a * (b \div 256)
        p0 == a * (b % 256)
        x  == ((p1 % 256) * 256) + p0
    IN  <<((p1 \div 256) + (x \div 65536)) % 65536, x % 65536>>

\* Math.imul: the low 32 bits of the product
Imul(a, b) ==
    LET low   == Mul16(a[2], b[2])
        cross == (Mul16(a[1], b[2])[2] + Mul16(a[2], b[1])[2]) % 65536
    IN  <<(low[1] + cross) % 65536, low[2]>>

\* 0x6D2B79F5
Increment == <<27947, 31221>>

\* rng.next() without the conversion >>> 0: the numerator is read as a signed
\* number, so its upper half lies in -32768 .. 32767
rngNext_signed(seed) ==
    Bind(Add32(ToWord(seed), Increment), LAMBDA s1 :
    Bind(Imul(Xor32(s1, Shr32(s1, 15)), OrLow(1, s1)), LAMBDA t1 :
    Bind(Xor32(Add32(t1, Imul(Xor32(t1, Shr32(t1, 7)), OrLow(61, t1))), t1), LAMBDA t2 :
    Bind(Xor32(t2, Shr32(t2, 14)), LAMBDA v :
        [seed |-> ToInt32(s1),
         value |-> <<IF v[1] >= 32768 THEN v[1] - 65536 ELSE v[1], v[2]>>]))))

\* rng.next(): the generator's new seed and the value drawn, as the 32-bit
\* numerator v of v / 4294967296
rngNext(seed) ==
    Bind(Add32(ToWord(seed), Increment), LAMBDA s1 :
    Bind(Imul(Xor32(s1, Shr32(s1, 15)), OrLow(1, s1)), LAMBDA t1 :
    Bind(Xor32(Add32(t1, Imul(Xor32(t1, Shr32(t1, 7)), OrLow(61, t1))), t1), LAMBDA t2 :
        [seed |-> ToInt32(s1), value |-> Xor32(t2, Shr32(t2, 14))])))


(***************************************************************************)
(* The rules object handed to engine(): the part of defaultRules the model *)
(* exercises, with the values of the source.  Multipliers and rates of the *)
(* market are in hundredths, proximityWeight in halves, costGrowth (1.5)   *)
(* a fraction.  The floorSpace entry has the fields that                   *)
(* getNextExpansionChunk reads.                                            *)
(***************************************************************************)
\* defaultRules.floorSpace holds costPerUnit alone; the three fields that
\* getNextExpansionChunk reads are those of an 8 x 8 start
floorSpaceRules == [initialWidth |-> 8, initialChunkSize |-> 8, costPerCell |-> 1]

rules ==
    [ materials |->
        [ wood               |-> [basePrice |-> 2,   weight |-> 1],
          planks             |-> [basePrice |-> 5,   weight |-> 2],
          iron_ingot         |-> [basePrice |-> 10,  weight |-> 3],
          iron_plate         |-> [basePrice |-> 15,  weight |-> 4],
          wooden_beam        |-> [basePrice |-> 8,   weight |-> 3],
          production_machine |-> [basePrice |-> 100, weight |-> 20],
          manual_crank       |-> [basePrice |-> 30,  weight |-> 8],
          water_wheel        |-> [basePrice |-> 80,  weight |-> 15],
          steam_engine       |-> [basePrice |-> 150, weight |-> 25] ],
      recipes |->
        << [id |-> "planks",      inputs |-> [wood |-> 2],
                                  outputs |-> [planks |-> 1]],
           [id |-> "iron_plate",  inputs |-> [iron_ingot |-> 1],
                                  outputs |-> [iron_plate |-> 1]],
           [id |-> "wooden_beam", inputs |-> [planks |-> 2],
                                  outputs |-> [wooden_beam |-> 1]] >>,
      market |->
        [decayRate |-> 5, recoveryRate |-> 2,
         minPopularity |-> 50, maxPopularity |-> 200],
      research |->
        [energyCost |-> 3, discoveryChance |-> 15, proximityWeight |-> 1],
      machines |->
        [itemId |-> "production_machine", baseSpace |-> 4, baseEnergy |-> 2],
      generators |->
        [types |->
          << [id |-> "manual_crank", itemId |-> "manual_crank",
              energyOutput |-> 3, spaceCost |-> 1],
             [id |-> "water_wheel", itemId |-> "water_wheel",
              energyOutput |-> 8, spaceCost |-> 4],
             [id |-> "steam_engine", itemId |-> "steam_engine",
              energyOutput |-> 15, spaceCost |-> 6] >>],
      floorSpace |-> floorSpaceRules,
      inventorySpace |->
        [baseCost |-> 50, costGrowth |-> [num |-> 3, den |-> 2],
         upgradeAmount |-> 50] ]

(***************************************************************************)
(* JavaScript objects used as maps (inventory, internalBuffer,             *)
(* marketPopularity): functions whose domain is the set of keys present.   *)
(***************************************************************************)
EmptyMap == [k \in {} |-> 0]

\* obj[k] || 0
Get(obj, k) == IF k \in DOMAIN obj THEN obj[k] ELSE 0

\* obj[k] = v
Put(obj, k, v) == [x \in DOMAIN obj \cup {k} |-> IF x = k THEN v ELSE obj[x]]

\* delete obj[k]
Del(obj, k) == [x \in DOMAIN obj \ {k} |-> obj[x]]

Range(seq) == {seq[i] : i \in DOMAIN seq}

\* array.findIndex(pred): the first index whose element is in the set, 0 if none
FindIndex(seq, hits) ==
    IF \E i \in DOMAIN seq : seq[i] \in hits
    THEN CHOOSE i \in DOMAIN seq :
            /\ seq[i] \in hits
            /\ \A j \in 1..(i - 1) : seq[j] \notin hits
    ELSE 0

\* array.splice(i, 1)
Splice(seq, i) == [j \in 1..(Len(seq) - 1) |-> IF j < i THEN seq[j] ELSE seq[j + 1]]

Min(a, b) == IF a <= b THEN a ELSE b
Max(a, b) == IF a >= b THEN a ELSE b

(***************************************************************************)
(* Utility functions.                                                      *)
(***************************************************************************)
getItemWeight(itemId) ==
    IF itemId \in DOMAIN rules.materials THEN rules.materials[itemId].weight ELSE 1

getMaxStack(itemId, inventoryCapacity) ==
    inventoryCapacity \div getItemWeight(itemId)

(***************************************************************************)
(* Grid placement.  Side lengths are in thousandths of a cell, so that the *)
(* square root of a cost that is no perfect square keeps its fraction.     *)
(***************************************************************************)
\* the next decimal digit of a square root: the largest 10r + d whose
\* square is at most n
nextDigit(r, n) ==
    10 * r + CHOOSE d \in 0..9 :
                /\ (10 * r + d) * (10 * r + d) <= n
                /\ (10 * r + d + 1) * (10 * r + d + 1) > n

\* Math.sqrt(spaceCost), in thousandths, rounded down
getStructureSize(spaceCost) ==
    LET whole == CHOOSE r \in 0..spaceCost :
                    r * r <= spaceCost /\ (r + 1) * (r + 1) > spaceCost
    IN  nextDigit(nextDigit(nextDigit(whole, 100 * spaceCost),
                            10000 * spaceCost),
                  1000000 * spaceCost)

\* a bounds test that looks at the new structure's corner alone
isWithinBounds_cornerOnly(x, y, size, width, height) ==
    /\ x >= 0
    /\ y >= 0
    /\ x < width
    /\ y < height

isWithinBounds(x, y, size, width, height) ==
    /\ x >= 0
    /\ y >= 0
    /\ 1000 * x + size <= 1000 * width
    /\ 1000 * y + size <= 1000 * height

\* a collision test that looks at the new structure's corner alone
isColliding_cornerOnly(x, y, size, placements) ==
    \E i \in DOMAIN placements :
        LET placement == placements[i]
        IN  /\ 1000 * placement.x <= 1000 * x
            /\ 1000 * x < 1000 * placement.x + placement.size
            /\ 1000 * placement.y <= 1000 * y
            /\ 1000 * y < 1000 * placement.y + placement.size

isColliding(x, y, size, placements) ==
    \E i \in DOMAIN placements :
        LET placement == placements[i]
            pSize     == placement.size
            noOverlap ==
                \/ 1000 * x + size <= 1000 * placement.x
                \/ 1000 * placement.x + pSize <= 1000 * x
                \/ 1000 * y + size <= 1000 * placement.y
                \/ 1000 * placement.y + pSize <= 1000 * y
        IN  ~noOverlap

canPlaceAt(s, x, y, size) ==
    IF ~isWithinBounds(x, y, size, s.floorSpace.width, s.floorSpace.height)
    THEN [valid |-> FALSE, error |-> "Position out of bounds"]
    ELSE IF isColliding(x, y, size, s.floorSpace.placements)
    THEN [valid |-> FALSE, error |-> "Position collides with existing structure"]
    ELSE [valid |-> TRUE, error |-> NULL]

\* the while loop of getNextExpansionChunk: doubles chunk and target while
\* both dimensions have reached the target
RECURSIVE findTarget(_, _, _, _)
findTarget(width, height, chunkSize, targetSquare) ==
    IF width >= targetSquare /\ height >= targetSquare
    THEN findTarget(width, height, chunkSize * 2, targetSquare * 2)
    ELSE [chunkSize |-> chunkSize, targetSquare |-> targetSquare]

\* an expansion whose chunk never doubles
getNextExpansionChunk_fixedChunk(s) ==
    LET width       == s.floorSpace.width
        height      == s.floorSpace.height
        t           == findTarget(width, height, rules.floorSpace.initialChunkSize,
                                  rules.floorSpace.initialWidth * 2)
        chunkSize   == rules.floorSpace.initialChunkSize
        expandWidth == width < t.targetSquare
        cellsAdded  == chunkSize * chunkSize
    IN  [ chunkSize   |-> chunkSize,
          newWidth    |-> IF expandWidth THEN width + chunkSize ELSE width,
          newHeight   |-> IF expandWidth THEN height ELSE height + chunkSize,
          cellsAdded  |-> cellsAdded,
          cost        |-> cellsAdded * rules.floorSpace.costPerCell,
          expandWidth |-> expandWidth ]

getNextExpansionChunk(s) ==
    LET width       == s.floorSpace.width
        height      == s.floorSpace.height
        t           == findTarget(width, height, rules.floorSpace.initialChunkSize,
                                  rules.floorSpace.initialWidth * 2)
        chunkSize   == t.chunkSize
        expandWidth == width < t.targetSquare
        cellsAdded  == chunkSize * chunkSize
    IN  [ chunkSize   |-> chunkSize,
          newWidth    |-> IF expandWidth THEN width + chunkSize ELSE width,
          newHeight   |-> IF expandWidth THEN height ELSE height + chunkSize,
          cellsAdded  |-> cellsAdded,
          cost        |-> cellsAdded * rules.floorSpace.costPerCell,
          expandWidth |-> expandWidth ]

(***************************************************************************)
(* Energy.                                                                 *)
(***************************************************************************)
\* a test that counts a machine that is switched off
consumes_disabledToo(machine) ==
    machine.recipeId # NULL /\ machine.status # "blocked"

\* machine.enabled && machine.recipeId && machine.status !== 'blocked'
consumes(machine) ==
    machine.enabled /\ machine.recipeId # NULL /\ machine.status # "blocked"

RECURSIVE sumOutput(_)
sumOutput(generators) ==
    IF generators = <<>> THEN 0
    ELSE Head(generators).energyOutput + sumOutput(Tail(generators))

RECURSIVE sumDraw(_)
sumDraw(machines) ==
    IF machines = <<>> THEN 0
    ELSE (IF consumes(Head(machines)) THEN Head(machines).energyConsumption ELSE 0)
         + sumDraw(Tail(machines))

calculateEnergy(s) ==
    [produced |-> sumOutput(s.generators), consumed |-> sumDraw(s.machines)]

(***************************************************************************)
(* simulateTick.                                                           *)
(***************************************************************************)
\* a deficit walk that does not stop when the deficit is covered
RECURSIVE blockMachines_all(_, _, _)
blockMachines_all(machines, i, deficit) ==
    IF i = 0 THEN machines
    ELSE IF consumes(machines[i])
    THEN blockMachines_all([machines EXCEPT ![i].status = "blocked"], i - 1,
                           deficit - machines[i].energyConsumption)
    ELSE blockMachines_all(machines, i - 1, deficit)

\* 1. the deficit walk: from the last machine backwards while deficit > 0
RECURSIVE blockMachines(_, _, _)
blockMachines(machines, i, deficit) ==
    IF i = 0 \/ deficit <= 0 THEN machines
    ELSE IF consumes(machines[i])
    THEN blockMachines([machines EXCEPT ![i].status = "blocked"], i - 1,
                       deficit - machines[i].energyConsumption)
    ELSE blockMachines(machines, i - 1, deficit)

\* the deficit walk without the recalculation that follows it
allocatePower_staleEnergy(s) ==
    Bind(calculateEnergy(s), LAMBDA energy :
        IF energy.consumed > energy.produced
        THEN [s EXCEPT !.machines =
                          blockMachines(s.machines, Len(s.machines),
                                        energy.consumed - energy.produced),
                       !.energy = energy]
        ELSE [s EXCEPT !.energy = energy])

\* a power allocation that first puts every blocked machine back to work
allocatePower_recover(s) ==
    Bind([s EXCEPT !.machines =
            [i \in DOMAIN s.machines |->
                IF s.machines[i].status = "blocked"
                THEN [s.machines[i] EXCEPT !.status = "working"]
                ELSE s.machines[i]]], LAMBDA freed :
    Bind(calculateEnergy(freed), LAMBDA energy :
        IF energy.consumed > energy.produced
        THEN Bind([freed EXCEPT !.machines =
                        blockMachines(freed.machines, Len(freed.machines),
                                      energy.consumed - energy.produced)],
                  LAMBDA blocked : [blocked EXCEPT !.energy = calculateEnergy(blocked)])
        ELSE [freed EXCEPT !.energy = energy]))

allocatePower(s) ==
    Bind(calculateEnergy(s), LAMBDA energy :
        IF energy.consumed > energy.produced
        THEN Bind([s EXCEPT !.machines =
                        blockMachines(s.machines, Len(s.machines),
                                      energy.consumed - energy.produced)],
                  LAMBDA blocked : [blocked EXCEPT !.energy = calculateEnergy(blocked)])
        ELSE [s EXCEPT !.energy = energy])

\* the extraction phase without the per-item limit
RECURSIVE extract_uncapped(_, _, _)
extract_uncapped(inventory, nodes, inventorySpace) ==
    IF nodes = <<>> THEN inventory
    ELSE LET node       == Head(nodes)
             resourceId == node.resourceType
         IN  extract_uncapped(
                 IF node.active /\ node.rate > 0
                 THEN Put(inventory, resourceId,
                          Get(inventory, resourceId) + node.rate)
                 ELSE inventory,
                 Tail(nodes), inventorySpace)

\* 2. the extraction phase, node by node
RECURSIVE extract(_, _, _)
extract(inventory, nodes, inventorySpace) ==
    IF nodes = <<>> THEN inventory
    ELSE LET node          == Head(nodes)
             resourceId    == node.resourceType
             currentAmount == Get(inventory, resourceId)
             maxStack      == getMaxStack(resourceId, inventorySpace)
             spaceLeft     == maxStack - currentAmount
             toAdd         == Min(node.rate, spaceLeft)
         IN  extract(IF node.active /\ toAdd > 0
                     THEN Put(inventory, resourceId, currentAmount + toAdd)
                     ELSE inventory,
                     Tail(nodes), inventorySpace)

\* rules.recipes.find(r => r.id === recipeId): its index, 0 if none
recipeIndex(recipeId) ==
    FindIndex(rules.recipes, {r \in Range(rules.recipes) : r.id = recipeId})

\* a pull that asks for the recipe's quantity whatever the buffer holds
toPull_ignoreBuffer(recipe, buffer, inventory, itemId) ==
    LET amount == Min(recipe.inputs[itemId], Get(inventory, itemId))
    IN  IF amount > 0 THEN amount ELSE 0

\* what the pull phase moves of one input item
toPull(recipe, buffer, inventory, itemId) ==
    LET stillNeeded == recipe.inputs[itemId] - Get(buffer, itemId)
        amount      == Min(stillNeeded, Get(inventory, itemId))
    IN  IF stillNeeded > 0 /\ amount > 0 THEN amount ELSE 0

pullBuffer(recipe, buffer, inventory) ==
    LET pulled == {k \in DOMAIN recipe.inputs : toPull(recipe, buffer, inventory, k) > 0}
    IN  [k \in DOMAIN buffer \cup pulled |->
            IF k \in pulled
            THEN Get(buffer, k) + toPull(recipe, buffer, inventory, k)
            ELSE buffer[k]]

pullInventory(recipe, buffer, inventory) ==
    [k \in DOMAIN inventory |->
        IF k \in DOMAIN recipe.inputs
        THEN inventory[k] - toPull(recipe, buffer, inventory, k)
        ELSE inventory[k]]

bufferComplete(recipe, buffer) ==
    \A k \in DOMAIN recipe.inputs : Get(buffer, k) >= recipe.inputs[k]

canProduce(recipe, inventory, inventorySpace) ==
    \A k \in DOMAIN recipe.outputs :
        getMaxStack(k, inventorySpace) - Get(inventory, k) >= recipe.outputs[k]

consumeBuffer(recipe, buffer) ==
    LET left(k) == IF k \in DOMAIN recipe.inputs
                   THEN buffer[k] - recipe.inputs[k] ELSE buffer[k]
    IN  [k \in {x \in DOMAIN buffer : x \notin DOMAIN recipe.inputs \/ left(x) # 0}
            |-> left(k)]

addOutputs(recipe, inventory) ==
    [k \in DOMAIN inventory \cup DOMAIN recipe.outputs |->
        IF k \in DOMAIN recipe.outputs
        THEN Get(inventory, k) + recipe.outputs[k]
        ELSE inventory[k]]

\* a machine that spends a complete buffer before it looks at the capacity
processMachine_consumeFirst(machine, inventory, unlockedRecipes, inventorySpace) ==
    IF ~machine.enabled \/ machine.recipeId = NULL \/ machine.status = "blocked"
    THEN [machine |-> machine, inventory |-> inventory]
    ELSE IF recipeIndex(machine.recipeId) = 0
            \/ machine.recipeId \notin Range(unlockedRecipes)
    THEN [machine |-> [machine EXCEPT !.status = "idle"], inventory |-> inventory]
    ELSE
      Bind(rules.recipes[recipeIndex(machine.recipeId)], LAMBDA recipe :
      Bind(pullBuffer(recipe, machine.internalBuffer, inventory), LAMBDA buffer :
      Bind(pullInventory(recipe, machine.internalBuffer, inventory), LAMBDA pulled :
      Bind(bufferComplete(recipe, buffer), LAMBDA full :
      Bind(full /\ canProduce(recipe, pulled, inventorySpace), LAMBDA done :
          [machine   |-> [machine EXCEPT
                            !.status = "working",
                            !.internalBuffer =
                                IF full THEN consumeBuffer(recipe, buffer) ELSE buffer],
           inventory |-> IF done THEN addOutputs(recipe, pulled) ELSE pulled])))))

\* a machine that is passed over when its recipe is unknown or locked
processMachine_passOver(machine, inventory, unlockedRecipes, inventorySpace) ==
    IF ~machine.enabled \/ machine.recipeId = NULL \/ machine.status = "blocked"
    THEN [machine |-> machine, inventory |-> inventory]
    ELSE IF recipeIndex(machine.recipeId) = 0
            \/ machine.recipeId \notin Range(unlockedRecipes)
    THEN [machine |-> machine, inventory |-> inventory]
    ELSE
      Bind(rules.recipes[recipeIndex(machine.recipeId)], LAMBDA recipe :
      Bind(pullBuffer(recipe, machine.internalBuffer, inventory), LAMBDA buffer :
      Bind(pullInventory(recipe, machine.internalBuffer, inventory), LAMBDA pulled :
      Bind(bufferComplete(recipe, buffer)
             /\ canProduce(recipe, pulled, inventorySpace), LAMBDA done :
          [machine   |-> [machine EXCEPT
                            !.status = "working",
                            !.internalBuffer =
                                IF done THEN consumeBuffer(recipe, buffer) ELSE buffer],
           inventory |-> IF done THEN addOutputs(recipe, pulled) ELSE pulled]))))

\* a machine that hands a complete buffer back when the output has no room
processMachine_returnStalled(machine, inventory, unlockedRecipes, inventorySpace) ==
    IF ~machine.enabled \/ machine.recipeId = NULL \/ machine.status = "blocked"
    THEN [machine |-> machine, inventory |-> inventory]
    ELSE IF recipeIndex(machine.recipeId) = 0
            \/ machine.recipeId \notin Range(unlockedRecipes)
    THEN [machine |-> [machine EXCEPT !.status = "idle"], inventory |-> inventory]
    ELSE
      Bind(rules.recipes[recipeIndex(machine.recipeId)], LAMBDA recipe :
      Bind(pullBuffer(recipe, machine.internalBuffer, inventory), LAMBDA buffer :
      Bind(pullInventory(recipe, machine.internalBuffer, inventory), LAMBDA pulled :
      Bind(bufferComplete(recipe, buffer), LAMBDA full :
      Bind(full /\ canProduce(recipe, pulled, inventorySpace), LAMBDA done :
          [machine   |-> [machine EXCEPT
                            !.status = "working",
                            !.internalBuffer =
                                IF done THEN consumeBuffer(recipe, buffer)
                                ELSE IF full THEN EmptyMap ELSE buffer],
           inventory |-> IF done THEN addOutputs(recipe, pulled)
                         ELSE IF full
                         THEN [k \in DOMAIN pulled \cup DOMAIN buffer |->
                                  Get(pulled, k) + Get(buffer, k)]
                         ELSE pulled])))))

\* 3. one machine of the processing loop: the machine and the inventory after it
processMachine(machine, inventory, unlockedRecipes, inventorySpace) ==
    IF ~machine.enabled \/ machine.recipeId = NULL \/ machine.status = "blocked"
    THEN [machine |-> machine, inventory |-> inventory]
    ELSE IF recipeIndex(machine.recipeId) = 0
            \/ machine.recipeId \notin Range(unlockedRecipes)
    THEN [machine |-> [machine EXCEPT !.status = "idle"], inventory |-> inventory]
    ELSE
      Bind(rules.recipes[recipeIndex(machine.recipeId)], LAMBDA recipe :
      Bind(pullBuffer(recipe, machine.internalBuffer, inventory), LAMBDA buffer :
      Bind(pullInventory(recipe, machine.internalBuffer, inventory), LAMBDA pulled :
      Bind(bufferComplete(recipe, buffer)
             /\ canProduce(recipe, pulled, inventorySpace), LAMBDA done :
          [machine   |-> [machine EXCEPT
                            !.status = "working",
                            !.internalBuffer =
                                IF done THEN consumeBuffer(recipe, buffer) ELSE buffer],
           inventory |-> IF done THEN addOutputs(recipe, pulled) ELSE pulled]))))

\* a processing loop that goes through the machine list from its end
RECURSIVE processMachines_lastFirst(_, _, _, _, _)
processMachines_lastFirst(machines, i, inventory, unlockedRecipes, inventorySpace) ==
    IF i > Len(machines) THEN [machines |-> machines, inventory |-> inventory]
    ELSE Bind(Len(machines) + 1 - i, LAMBDA j :
         Bind(processMachine(machines[j], inventory, unlockedRecipes, inventorySpace),
              LAMBDA r :
                processMachines_lastFirst([machines EXCEPT ![j] = r.machine], i + 1,
                                          r.inventory, unlockedRecipes, inventorySpace)))

RECURSIVE processMachines(_, _, _, _, _)
processMachines(machines, i, inventory, unlockedRecipes, inventorySpace) ==
    IF i > Len(machines) THEN [machines |-> machines, inventory |-> inventory]
    ELSE Bind(processMachine(machines[i], inventory, unlockedRecipes, inventorySpace),
              LAMBDA r :
                processMachines([machines EXCEPT ![i] = r.machine], i + 1,
                                r.inventory, unlockedRecipes, inventorySpace))

\* 4. research
\* roll < rules.research.discoveryChance, for a roll of numerator v
rollBelowChance(v) ==
    v[1] * 100 + ((v[2] * 100) \div 65536) < rules.research.discoveryChance * 65536

\* a weight that gives every recipe the base weight
recipeWeight_flat(recipe, inventory) ==
    2

\* the weight of a recipe, in halves
recipeWeight(recipe, inventory) ==
    2 + rules.research.proximityWeight
        * Cardinality({k \in DOMAIN recipe.inputs : Get(inventory, k) > 0})

RECURSIVE sumWeights(_, _)
sumWeights(recipes, inventory) ==
    IF recipes = <<>> THEN 0
    ELSE recipeWeight(Head(recipes), inventory) + sumWeights(Tail(recipes), inventory)

\* (v / 2^32) * totalWeight - cumulative <= 0, weights in halves
selectionSpent(v, totalWeight, cumulative) ==
    LET q == v[1] * totalWeight + ((v[2] * totalWeight) \div 65536)
        b == (v[2] * totalWeight) % 65536
    IN  \/ q < cumulative * 65536
        \/ q = cumulative * 65536 /\ b = 0

\* the loop of the weighted selection: the id selected, NULL if the loop ends
RECURSIVE selectRecipe(_, _, _, _, _)
selectRecipe(weighted, inventory, v, totalWeight, cumulative) ==
    IF weighted = <<>> THEN NULL
    ELSE Bind(cumulative + recipeWeight(Head(weighted), inventory), LAMBDA c :
            IF selectionSpent(v, totalWeight, c) THEN Head(weighted).id
            ELSE selectRecipe(Tail(weighted), inventory, v, totalWeight, c))

\* a filter that lets every recipe of the table through
undiscoveredRecipes_all(discoveredRecipes) ==
    rules.recipes

undiscoveredRecipes(discoveredRecipes) ==
    SelectSeq(rules.recipes, LAMBDA r : r.id \notin Range(discoveredRecipes))

\* a research phase that hands back the seed of the roll after the second draw
research_rollSeed(s, seed) ==
    LET spareEnergy == s.energy.produced - s.energy.consumed
    IN  IF s.research.active /\ spareEnergy >= rules.research.energyCost
        THEN Bind(rngNext(seed), LAMBDA roll :
             Bind(undiscoveredRecipes(s.discoveredRecipes), LAMBDA undiscovered :
                IF undiscovered # <<>> /\ rollBelowChance(roll.value)
                THEN Bind(rngNext(roll.seed), LAMBDA pick :
                     Bind(selectRecipe(undiscovered, s.inventory, pick.value,
                                       sumWeights(undiscovered, s.inventory), 0),
                          LAMBDA id :
                            [discoveredRecipes |->
                                IF id = NULL THEN s.discoveredRecipes
                                ELSE Append(s.discoveredRecipes, id),
                             seed |-> roll.seed, draws |-> 2]))
                ELSE [discoveredRecipes |-> s.discoveredRecipes,
                      seed |-> roll.seed, draws |-> 1]))
        ELSE [discoveredRecipes |-> s.discoveredRecipes, seed |-> seed, draws |-> 0]

\* a research phase that runs whenever research is active
research_anyEnergy(s, seed) ==
    LET spareEnergy == s.energy.produced - s.energy.consumed
    IN  IF s.research.active
        THEN Bind(rngNext(seed), LAMBDA roll :
             Bind(undiscoveredRecipes(s.discoveredRecipes), LAMBDA undiscovered :
                IF undiscovered # <<>> /\ rollBelowChance(roll.value)
                THEN Bind(rngNext(roll.seed), LAMBDA pick :
                     Bind(selectRecipe(undiscovered, s.inventory, pick.value,
                                       sumWeights(undiscovered, s.inventory), 0),
                          LAMBDA id :
                            [discoveredRecipes |->
                                IF id = NULL THEN s.discoveredRecipes
                                ELSE Append(s.discoveredRecipes, id),
                             seed |-> pick.seed, draws |-> 2]))
                ELSE [discoveredRecipes |-> s.discoveredRecipes,
                      seed |-> roll.seed, draws |-> 1]))
        ELSE [discoveredRecipes |-> s.discoveredRecipes, seed |-> seed, draws |-> 0]

\* the research phase: the discovered list and the generator's seed after it
research(s, seed) ==
    LET spareEnergy == s.energy.produced - s.energy.consumed
    IN  IF s.research.active /\ spareEnergy >= rules.research.energyCost
        THEN Bind(rngNext(seed), LAMBDA roll :
             Bind(undiscoveredRecipes(s.discoveredRecipes), LAMBDA undiscovered :
                IF undiscovered # <<>> /\ rollBelowChance(roll.value)
                THEN Bind(rngNext(roll.seed), LAMBDA pick :
                     Bind(selectRecipe(undiscovered, s.inventory, pick.value,
                                       sumWeights(undiscovered, s.inventory), 0),
                          LAMBDA id :
                            [discoveredRecipes |->
                                IF id = NULL THEN s.discoveredRecipes
                                ELSE Append(s.discoveredRecipes, id),
                             seed |-> pick.seed, draws |-> 2]))
                ELSE [discoveredRecipes |-> s.discoveredRecipes,
                      seed |-> roll.seed, draws |-> 1]))
        ELSE [discoveredRecipes |-> s.discoveredRecipes, seed |-> seed, draws |-> 0]

\* a recovery that is not clamped to maxPopularity
recoverMarket_unclamped(marketPopularity) ==
    [k \in DOMAIN marketPopularity |->
        marketPopularity[k] + rules.market.recoveryRate]

\* 5. market recovery: soldThisTick is never filled, every item recovers
recoverMarket(marketPopularity) ==
    [k \in DOMAIN marketPopularity |->
        Min(rules.market.maxPopularity,
            marketPopularity[k] + rules.market.recoveryRate)]

\* a tick whose machines run before the nodes deliver and after research
simulateTick_productionLast(s) ==
    Bind(allocatePower(s), LAMBDA powered :
    Bind(research(powered, s.rngSeed), LAMBDA found :
    Bind(processMachines(powered.machines, 1, powered.inventory,
                         powered.unlockedRecipes, powered.inventorySpace),
         LAMBDA processed :
    Bind(extract(processed.inventory, powered.extractionNodes, powered.inventorySpace),
         LAMBDA extracted :
        [powered EXCEPT
            !.machines          = processed.machines,
            !.inventory         = extracted,
            !.discoveredRecipes = found.discoveredRecipes,
            !.marketPopularity  = recoverMarket(powered.marketPopularity),
            !.tick              = s.tick + 1,
            !.rngSeed           = found.seed]))))

simulateTick(s) ==
    Bind(allocatePower(s), LAMBDA powered :
    Bind(extract(powered.inventory, powered.extractionNodes, powered.inventorySpace),
         LAMBDA extracted :
    Bind(processMachines(powered.machines, 1, extracted,
                         powered.unlockedRecipes, powered.inventorySpace),
         LAMBDA processed :
    Bind([powered EXCEPT !.machines = processed.machines,
                         !.inventory = processed.inventory],
         LAMBDA produced :
    Bind(research(produced, s.rngSeed), LAMBDA found :
        [produced EXCEPT
            !.discoveredRecipes = found.discoveredRecipes,
            !.marketPopularity  = recoverMarket(produced.marketPopularity),
            !.tick              = s.tick + 1,
            !.rngSeed           = found.seed])))))

(***************************************************************************)
(* Action handlers.  Each returns [state, error]; error is NULL when the   *)
(* command is accepted.  generateId() is Math.random(): the id it returns  *)
(* is an input of the handler.                                             *)
(***************************************************************************)
Result(s, e) == [state |-> s, error |-> e]

hasPosition(payload) == {"x", "y"} \subseteq DOMAIN payload

\* inventory[itemId] -= 1, and the key deleted at 0
consumeItem(inventory, itemId) ==
    IF inventory[itemId] - 1 = 0 THEN Del(inventory, itemId)
    ELSE Put(inventory, itemId, inventory[itemId] - 1)

\* addMachine taking the item out of the inventory before it checks the position
addMachine_consumeFirst(s, payload, machineId) ==
    IF ~hasPosition(payload) THEN Result(s, "Position (x, y) is required")
    ELSE IF Get(s.inventory, rules.machines.itemId) < 1
    THEN Result(s, "Need 1 item in inventory to deploy a machine")
    ELSE
      LET x         == payload.x
          y         == payload.y
          size      == getStructureSize(rules.machines.baseSpace)
          taken     == [s EXCEPT !.inventory =
                            consumeItem(s.inventory, rules.machines.itemId)]
          placement == canPlaceAt(taken, x, y, size)
      IN  IF ~placement.valid THEN Result(taken, placement.error)
          ELSE Result(
            [taken EXCEPT
              !.machines = Append(s.machines,
                  [id |-> machineId, recipeId |-> NULL, internalBuffer |-> EmptyMap,
                   status |-> "idle", enabled |-> TRUE,
                   spaceUsed |-> rules.machines.baseSpace,
                   energyConsumption |-> rules.machines.baseEnergy,
                   x |-> x, y |-> y]),
              !.floorSpace.placements = Append(s.floorSpace.placements,
                  [id |-> machineId, x |-> x, y |-> y, size |-> size,
                   type |-> "machine"])],
            NULL)

addMachine(s, payload, machineId) ==
    IF ~hasPosition(payload) THEN Result(s, "Position (x, y) is required")
    ELSE
      LET x         == payload.x
          y         == payload.y
          size      == getStructureSize(rules.machines.baseSpace)
          placement == canPlaceAt(s, x, y, size)
      IN  IF ~placement.valid THEN Result(s, placement.error)
          ELSE IF Get(s.inventory, rules.machines.itemId) < 1
          THEN Result(s, "Need 1 item in inventory to deploy a machine")
          ELSE Result(
            [s EXCEPT
              !.inventory = consumeItem(s.inventory, rules.machines.itemId),
              !.machines = Append(s.machines,
                  [id |-> machineId, recipeId |-> NULL, internalBuffer |-> EmptyMap,
                   status |-> "idle", enabled |-> TRUE,
                   spaceUsed |-> rules.machines.baseSpace,
                   energyConsumption |-> rules.machines.baseEnergy,
                   x |-> x, y |-> y]),
              !.floorSpace.placements = Append(s.floorSpace.placements,
                  [id |-> machineId, x |-> x, y |-> y, size |-> size,
                   type |-> "machine"])],
            NULL)

\* a removal that forgets the buffer
returnBuffer_dropped(inventory, buffer) == inventory

\* the loop that returns a machine's buffer to the inventory
returnBuffer(inventory, buffer) ==
    [k \in DOMAIN inventory \cup DOMAIN buffer |->
        IF k \in DOMAIN buffer THEN Get(inventory, k) + buffer[k] ELSE inventory[k]]

\* placements.findIndex(p => p.id === id), then splice if found
removePlacement(placements, id) ==
    LET placementIndex == FindIndex(placements, {p \in Range(placements) : p.id = id})
    IN  IF placementIndex # 0 THEN Splice(placements, placementIndex) ELSE placements

removeMachine(s, payload) ==
    LET machineIndex == FindIndex(s.machines,
                                  {m \in Range(s.machines) : m.id = payload.machineId})
    IN  IF machineIndex = 0 THEN Result(s, "Machine not found")
        ELSE Result(
          [s EXCEPT
            !.inventory = returnBuffer(s.inventory,
                                       s.machines[machineIndex].internalBuffer),
            !.machines = Splice(s.machines, machineIndex),
            !.floorSpace.placements =
                removePlacement(s.floorSpace.placements, payload.machineId)],
          NULL)

\* assignRecipe without the check of unlockedRecipes
assignRecipe_anyKnown(s, payload) ==
    LET machineIndex == FindIndex(s.machines,
                                  {m \in Range(s.machines) : m.id = payload.machineId})
        recipeId     == payload.recipeId
    IN  IF machineIndex = 0 THEN Result(s, "Machine not found")
        ELSE IF recipeId # NULL /\ recipeIndex(recipeId) = 0
        THEN Result(s, "Recipe not found")
        ELSE Result(
          [s EXCEPT
            !.inventory = returnBuffer(s.inventory,
                                       s.machines[machineIndex].internalBuffer),
            !.machines[machineIndex].recipeId = recipeId,
            !.machines[machineIndex].internalBuffer = EmptyMap,
            !.machines[machineIndex].status =
                IF recipeId # NULL THEN "working" ELSE "idle"],
          NULL)

\* an assignment that leaves the machine's status as it was
assignRecipe_keepStatus(s, payload) ==
    LET machineIndex == FindIndex(s.machines,
                                  {m \in Range(s.machines) : m.id = payload.machineId})
        recipeId     == payload.recipeId
    IN  IF machineIndex = 0 THEN Result(s, "Machine not found")
        ELSE IF recipeId # NULL /\ recipeIndex(recipeId) = 0
        THEN Result(s, "Recipe not found")
        ELSE IF recipeId # NULL /\ recipeId \notin Range(s.unlockedRecipes)
        THEN Result(s, "Recipe not unlocked")
        ELSE Result(
          [s EXCEPT
            !.inventory = returnBuffer(s.inventory,
                                       s.machines[machineIndex].internalBuffer),
            !.machines[machineIndex].recipeId = recipeId,
            !.machines[machineIndex].internalBuffer = EmptyMap],
          NULL)

assignRecipe(s, payload) ==
    LET machineIndex == FindIndex(s.machines,
                                  {m \in Range(s.machines) : m.id = payload.machineId})
        recipeId     == payload.recipeId
    IN  IF machineIndex = 0 THEN Result(s, "Machine not found")
        ELSE IF recipeId # NULL /\ recipeIndex(recipeId) = 0
        THEN Result(s, "Recipe not found")
        ELSE IF recipeId # NULL /\ recipeId \notin Range(s.unlockedRecipes)
        THEN Result(s, "Recipe not unlocked")
        ELSE Result(
          [s EXCEPT
            !.inventory = returnBuffer(s.inventory,
                                       s.machines[machineIndex].internalBuffer),
            !.machines[machineIndex].recipeId = recipeId,
            !.machines[machineIndex].internalBuffer = EmptyMap,
            !.machines[machineIndex].status =
                IF recipeId # NULL THEN "working" ELSE "idle"],
          NULL)

addGenerator(s, payload, generatorId) ==
    LET types    == rules.generators.types
        genIndex == FindIndex(types, {g \in Range(types) : g.id = payload.generatorType})
    IN  IF ~hasPosition(payload) THEN Result(s, "Position (x, y) is required")
        ELSE IF genIndex = 0 THEN Result(s, "Generator type not found")
        ELSE
          LET genConfig == types[genIndex]
              x         == payload.x
              y         == payload.y
              size      == getStructureSize(genConfig.spaceCost)
              placement == canPlaceAt(s, x, y, size)
          IN  IF ~placement.valid THEN Result(s, placement.error)
              ELSE IF Get(s.inventory, genConfig.itemId) < 1
              THEN Result(s, "Need 1 item in inventory to deploy this generator")
              ELSE
                LET built ==
                      [s EXCEPT
                        !.inventory = consumeItem(s.inventory, genConfig.itemId),
                        !.generators = Append(s.generators,
                            [id |-> generatorId, type |-> payload.generatorType,
                             energyOutput |-> genConfig.energyOutput,
                             spaceUsed |-> genConfig.spaceCost, x |-> x, y |-> y]),
                        !.floorSpace.placements = Append(s.floorSpace.placements,
                            [id |-> generatorId, x |-> x, y |-> y, size |-> size,
                             type |-> "generator"])]
                IN  Result([built EXCEPT !.energy = calculateEnergy(built)], NULL)

removeGenerator(s, payload) ==
    LET genIndex == FindIndex(s.generators,
                              {g \in Range(s.generators) : g.id = payload.generatorId})
    IN  IF genIndex = 0 THEN Result(s, "Generator not found")
        ELSE
          LET removed ==
                [s EXCEPT
                  !.generators = Splice(s.generators, genIndex),
                  !.floorSpace.placements =
                      removePlacement(s.floorSpace.placements, payload.generatorId)]
          IN  Result([removed EXCEPT !.energy = calculateEnergy(removed)], NULL)

\* an expansion that grows both sides by the chunk
buyFloorSpace_bothSides(s, payload) ==
    LET expansion == getNextExpansionChunk(s)
    IN  IF s.credits < expansion.cost THEN Result(s, "Not enough credits")
        ELSE Result(
          [s EXCEPT !.credits = s.credits - expansion.cost,
                    !.floorSpace.width = s.floorSpace.width + expansion.chunkSize,
                    !.floorSpace.height = s.floorSpace.height + expansion.chunkSize],
          NULL)

buyFloorSpace(s, payload) ==
    LET expansion == getNextExpansionChunk(s)
    IN  IF s.credits < expansion.cost THEN Result(s, "Not enough credits")
        ELSE Result(
          [s EXCEPT !.credits = s.credits - expansion.cost,
                    !.floorSpace.width = expansion.newWidth,
                    !.floorSpace.height = expansion.newHeight],
          NULL)

\* marketPopularity[itemId] || 1.0
popularityOf(marketPopularity, itemId) ==
    IF Get(marketPopularity, itemId) # 0 THEN marketPopularity[itemId] ELSE 100

\* Math.floor of a quotient of integers
Floor(num, den) == num \div den

\* sellGoods with the price taken from the multiplier a first sale starts at
sellGoods_pricedAtMax(s, payload) ==
    LET itemId   == payload.itemId
        quantity == payload.quantity
    IN  IF Get(s.inventory, itemId) < quantity
        THEN Result(s, "Not enough items in inventory")
        ELSE IF itemId \notin DOMAIN rules.materials
        THEN Result(s, "Item not found in materials list")
        ELSE
          LET tracked      == IF Get(s.marketPopularity, itemId) = 0
                              THEN rules.market.maxPopularity
                              ELSE s.marketPopularity[itemId]
              totalCredits == Floor(rules.materials[itemId].basePrice * tracked
                                      * quantity, 100)
              left         == Get(s.inventory, itemId) - quantity
          IN  Result(
                [s EXCEPT
                  \* undefined - quantity is NaN, which every later read
                  \* (|| 0, and null after the next clone) takes for 0
                  !.inventory = IF itemId \notin DOMAIN s.inventory
                                THEN Put(s.inventory, itemId, 0)
                                ELSE IF left = 0 THEN Del(s.inventory, itemId)
                                ELSE Put(s.inventory, itemId, left),
                  !.credits = s.credits + totalCredits,
                  !.marketPopularity =
                      Put(s.marketPopularity, itemId,
                          Max(rules.market.minPopularity,
                              tracked - rules.market.decayRate * quantity))],
                NULL)

\* sellGoods with the decay applied to the multiplier that priced the sale
sellGoods_decayFromPrice(s, payload) ==
    LET itemId   == payload.itemId
        quantity == payload.quantity
    IN  IF Get(s.inventory, itemId) < quantity
        THEN Result(s, "Not enough items in inventory")
        ELSE IF itemId \notin DOMAIN rules.materials
        THEN Result(s, "Item not found in materials list")
        ELSE
          LET popularity   == popularityOf(s.marketPopularity, itemId)
              totalCredits == Floor(rules.materials[itemId].basePrice * popularity
                                      * quantity, 100)
              left         == Get(s.inventory, itemId) - quantity
              tracked      == popularity
          IN  Result(
                [s EXCEPT
                  \* undefined - quantity is NaN, which every later read
                  \* (|| 0, and null after the next clone) takes for 0
                  !.inventory = IF itemId \notin DOMAIN s.inventory
                                THEN Put(s.inventory, itemId, 0)
                                ELSE IF left = 0 THEN Del(s.inventory, itemId)
                                ELSE Put(s.inventory, itemId, left),
                  !.credits = s.credits + totalCredits,
                  !.marketPopularity =
                      Put(s.marketPopularity, itemId,
                          Max(rules.market.minPopularity,
                              tracked - rules.market.decayRate * quantity))],
                NULL)

sellGoods(s, payload) ==
    LET itemId   == payload.itemId
        quantity == payload.quantity
    IN  IF Get(s.inventory, itemId) < quantity
        THEN Result(s, "Not enough items in inventory")
        ELSE IF itemId \notin DOMAIN rules.materials
        THEN Result(s, "Item not found in materials list")
        ELSE
          LET popularity   == popularityOf(s.marketPopularity, itemId)
              totalCredits == Floor(rules.materials[itemId].basePrice * popularity
                                      * quantity, 100)
              left         == Get(s.inventory, itemId) - quantity
              tracked      == IF Get(s.marketPopularity, itemId) = 0
                              THEN rules.market.maxPopularity
                              ELSE s.marketPopularity[itemId]
          IN  Result(
                [s EXCEPT
                  \* undefined - quantity is NaN, which every later read
                  \* (|| 0, and null after the next clone) takes for 0
                  !.inventory = IF itemId \notin DOMAIN s.inventory
                                THEN Put(s.inventory, itemId, 0)
                                ELSE IF left = 0 THEN Del(s.inventory, itemId)
                                ELSE Put(s.inventory, itemId, left),
                  !.credits = s.credits + totalCredits,
                  !.marketPopularity =
                      Put(s.marketPopularity, itemId,
                          Max(rules.market.minPopularity,
                              tracked - rules.market.decayRate * quantity))],
                NULL)

\* a toggle that takes a value from the generator
toggleResearch_draw(s, payload) ==
    LET toggled == [s EXCEPT !.research.active = payload.active,
                             !.rngSeed = rngNext(s.rngSeed).seed]
    IN  Result([toggled EXCEPT !.energy = calculateEnergy(toggled)], NULL)

toggleResearch(s, payload) ==
    LET toggled == [s EXCEPT !.research.active = payload.active]
    IN  Result([toggled EXCEPT !.energy = calculateEnergy(toggled)], NULL)

\* an unlock that does not ask whether the recipe was discovered
unlockRecipe_undiscovered(s, payload) ==
    IF payload.recipeId \in Range(s.unlockedRecipes)
    THEN Result(s, "Recipe already unlocked")
    ELSE Result([s EXCEPT !.unlockedRecipes = Append(s.unlockedRecipes,
                                                     payload.recipeId)],
                NULL)

unlockRecipe(s, payload) ==
    IF payload.recipeId \notin Range(s.discoveredRecipes)
    THEN Result(s, "Recipe not discovered yet")
    ELSE IF payload.recipeId \in Range(s.unlockedRecipes)
    THEN Result(s, "Recipe already unlocked")
    ELSE Result([s EXCEPT !.unlockedRecipes = Append(s.unlockedRecipes,
                                                     payload.recipeId)],
                NULL)

unblockMachine(s, payload) ==
    LET machineIndex == FindIndex(s.machines,
                                  {m \in Range(s.machines) : m.id = payload.machineId})
    IN  IF machineIndex = 0 THEN Result(s, "Machine not found")
        ELSE IF s.machines[machineIndex].status # "blocked"
        THEN Result(s, "Machine is not blocked")
        ELSE
          LET unblocked ==
                [s EXCEPT !.machines[machineIndex].status =
                    IF s.machines[machineIndex].recipeId # NULL
                    THEN "working" ELSE "idle"]
          IN  Result([unblocked EXCEPT !.energy = calculateEnergy(unblocked)], NULL)

toggleMachine(s, payload) ==
    LET machineIndex == FindIndex(s.machines,
                                  {m \in Range(s.machines) : m.id = payload.machineId})
    IN  IF machineIndex = 0 THEN Result(s, "Machine not found")
        ELSE
          LET toggled ==
                [s EXCEPT !.machines[machineIndex].enabled =
                    ~s.machines[machineIndex].enabled]
          IN  Result([toggled EXCEPT !.energy = calculateEnergy(toggled)], NULL)

RECURSIVE Power(_, _)
Power(base, n) == IF n = 0 THEN 1 ELSE base * Power(base, n - 1)

\* a storage upgrade that is sold whatever the credits are
buyInventorySpace_onCredit(s, payload) ==
    LET upgrade      == rules.inventorySpace
        currentLevel == s.inventorySpace \div upgrade.upgradeAmount
        cost         == Floor(upgrade.baseCost * Power(upgrade.costGrowth.num, currentLevel),
                              Power(upgrade.costGrowth.den, currentLevel))
    IN  Result(
          [s EXCEPT !.credits = s.credits - cost,
                    !.inventorySpace = s.inventorySpace + upgrade.upgradeAmount],
          NULL)

buyInventorySpace(s, payload) ==
    LET upgrade      == rules.inventorySpace
        currentLevel == s.inventorySpace \div upgrade.upgradeAmount
        cost         == Floor(upgrade.baseCost * Power(upgrade.costGrowth.num, currentLevel),
                              Power(upgrade.costGrowth.den, currentLevel))
    IN  IF s.credits < cost THEN Result(s, "Not enough credits")
        ELSE Result(
          [s EXCEPT !.credits = s.credits - cost,
                    !.inventorySpace = s.inventorySpace + upgrade.upgradeAmount],
          NULL)

(***************************************************************************)
(* engine(state, rules, action).  id is what generateId() returns if the   *)
(* handler calls it.                                                       *)
(***************************************************************************)
engine(s, action, id) ==
    CASE action.type = "SIMULATE"            -> Result(simulateTick(s), NULL)
      [] action.type = "ADD_MACHINE"         -> addMachine(s, action.payload, id)
      [] action.type = "REMOVE_MACHINE"      -> removeMachine(s, action.payload)
      [] action.type = "ASSIGN_RECIPE"       -> assignRecipe(s, action.payload)
      [] action.type = "ADD_GENERATOR"       -> addGenerator(s, action.payload, id)
      [] action.type = "REMOVE_GENERATOR"    -> removeGenerator(s, action.payload)
      [] action.type = "BUY_FLOOR_SPACE"     -> buyFloorSpace(s, action.payload)
      [] action.type = "SELL_GOODS"          -> sellGoods(s, action.payload)
      [] action.type = "TOGGLE_RESEARCH"     -> toggleResearch(s, action.payload)
      [] action.type = "UNLOCK_RECIPE"       -> unlockRecipe(s, action.payload)
      [] action.type = "UNBLOCK_MACHINE"     -> unblockMachine(s, action.payload)
      [] action.type = "TOGGLE_MACHINE"      -> toggleMachine(s, action.payload)
      [] action.type = "BUY_INVENTORY_SPACE" -> buyInventorySpace(s, action.payload)
      [] OTHER -> Result(s, "Unknown action type")

(***************************************************************************)
(* The commands issued to the engine.                                      *)
(***************************************************************************)
\* the ids Math.random() may produce
Ids == {"a", "b"}

\* ids named by commands: those of structures and one that names nothing
NamedIds == Ids \cup {"starter_crank", "none"}

Positions ==
    { [x |-> 0, y |-> 0], [x |-> 1, y |-> 1], [x |-> 2, y |-> 0],
      [x |-> 7, y |-> 7], EmptyMap }

GeneratorTypes == {"manual_crank", "water_wheel", "steam_engine", "windmill"}

RecipeIds == {NULL, "planks", "iron_plate", "wooden_beam", "gold"}

SellItems == {"wood", "planks", "gold"}

SellQuantities == {1, 5}

Tick == [type |-> "SIMULATE"]

AddMachineAt(p) == [type |-> "ADD_MACHINE", payload |-> p]

RemoveMachineOf(id) == [type |-> "REMOVE_MACHINE", payload |-> [machineId |-> id]]

AssignRecipeTo(id, r) ==
    [type |-> "ASSIGN_RECIPE", payload |-> [machineId |-> id, recipeId |-> r]]

AddGeneratorAt(g, p) ==
    [type |-> "ADD_GENERATOR",
     payload |-> [k \in DOMAIN p \cup {"generatorType"} |->
                     IF k = "generatorType" THEN g ELSE p[k]]]

RemoveGeneratorOf(id) ==
    [type |-> "REMOVE_GENERATOR", payload |-> [generatorId |-> id]]

BuyFloor == [type |-> "BUY_FLOOR_SPACE", payload |-> EmptyMap]

Sell(i, q) == [type |-> "SELL_GOODS", payload |-> [itemId |-> i, quantity |-> q]]

SetResearch(a) == [type |-> "TOGGLE_RESEARCH", payload |-> [active |-> a]]

Unlock(r) == [type |-> "UNLOCK_RECIPE", payload |-> [recipeId |-> r]]

Unblock(id) == [type |-> "UNBLOCK_MACHINE", payload |-> [machineId |-> id]]

Toggle(id) == [type |-> "TOGGLE_MACHINE", payload |-> [machineId |-> id]]

BuyInventory == [type |-> "BUY_INVENTORY_SPACE", payload |-> EmptyMap]

Unknown == [type |-> "RESET"]

AddMachineCommands      == {AddMachineAt(p) : p \in Positions}
RemoveMachineCommands   == {RemoveMachineOf(id) : id \in NamedIds}
AssignRecipeCommands    == {AssignRecipeTo(id, r) : id \in NamedIds, r \in RecipeIds}
AddGeneratorCommands    == {AddGeneratorAt(g, p) : g \in GeneratorTypes, p \in Positions}
RemoveGeneratorCommands == {RemoveGeneratorOf(id) : id \in NamedIds}
SellGoodsCommands       == {Sell(i, q) : i \in SellItems, q \in SellQuantities}
ToggleResearchCommands  == {SetResearch(a) : a \in BOOLEAN}
UnlockRecipeCommands    == {Unlock(r) : r \in RecipeIds \ {NULL}}
UnblockMachineCommands  == {Unblock(id) : id \in NamedIds}
ToggleMachineCommands   == {Toggle(id) : id \in NamedIds}

\* the ids generateId() may return to the handler of a command
IdsFor(action) ==
    IF action.type \in {"ADD_MACHINE", "ADD_GENERATOR"} THEN Ids ELSE {NULL}

(***************************************************************************)
(* The states the engine is started from.  The fields are those of         *)
(* initialState; floorSpace has the shape the engine reads (width, height, *)
(* placements), with the starting generator placed on the floor.  A run    *)
(* starts from a new game, from a game with a stock of goods, or from a    *)
(* state that commands lead to from there.                                 *)
(***************************************************************************)
\* the floor of a new game: 8 x 8 cells, the starting crank in a corner
initialFloor ==
    [width |-> 8, height |-> 8,
     placements |-> << [id |-> "starter_crank", x |-> 7, y |-> 7,
                        size |-> 1000, type |-> "generator"] >>]

initialState(seed, inventory) ==
    [ tick |-> 0,
      rngSeed |-> seed,
      credits |-> 500,
      floorSpace |-> initialFloor,
      energy |-> [produced |-> 3, consumed |-> 0],
      inventorySpace |-> 100,
      inventory |-> inventory,
      machines |-> << >>,
      generators |->
        << [id |-> "starter_crank", type |-> "manual_crank", energyOutput |-> 3,
            spaceUsed |-> 1, x |-> 7, y |-> 7] >>,
      extractionNodes |->
        << [id |-> "node_wood_1", resourceType |-> "wood", rate |-> 2,
            active |-> TRUE] >>,
      discoveredRecipes |-> << "planks" >>,
      unlockedRecipes |-> << "planks" >>,
      research |-> [active |-> FALSE, energyConsumption |-> 5],
      marketPopularity |-> EmptyMap ]

\* a stock close to the capacity of wood and planks
Stock ==
    [production_machine |-> 2, manual_crank |-> 1, water_wheel |-> 1,
     wood |-> 97, planks |-> 49]

\* wood and planks at capacity
FullStock == [production_machine |-> 2, wood |-> 100, planks |-> 50]

\* almost nothing but the equipment
LowStock == [production_machine |-> 2, manual_crank |-> 1, wood |-> 1]

\* the state after a sequence of <<command, id>> calls
RECURSIVE Run(_, _)
Run(s, commands) ==
    IF commands = <<>> THEN s
    ELSE Run(engine(s, Head(commands)[1], Head(commands)[2]).state, Tail(commands))

OneMachine ==
    << <<AddMachineAt([x |-> 0, y |-> 0]), "a">>,
       <<AssignRecipeTo("a", "planks"), NULL>> >>

TwoMachines ==
    OneMachine \o
    << <<AddMachineAt([x |-> 2, y |-> 0]), "b">>,
       <<AssignRecipeTo("b", "planks"), NULL>> >>

\* research finds wooden_beam (seed 35), a second crank powers two machines,
\* the second machine makes beams of the planks of the first
Chain ==
    << <<SetResearch(TRUE), NULL>>,
       <<Tick, NULL>>,
       <<Unlock("wooden_beam"), NULL>>,
       <<SetResearch(FALSE), NULL>>,
       <<AddGeneratorAt("manual_crank", [x |-> 1, y |-> 1]), "c">>,
       <<AddMachineAt([x |-> 2, y |-> 0]), "a">>,
       <<AssignRecipeTo("a", "planks"), NULL>>,
       <<AddMachineAt([x |-> 4, y |-> 0]), "b">>,
       <<AssignRecipeTo("b", "wooden_beam"), NULL>> >>

\* research finds a recipe, then a machine is built
Discovery ==
    << <<SetResearch(TRUE), NULL>>,
       <<Tick, NULL>>,
       <<AddMachineAt([x |-> 0, y |-> 0]), "a">> >>

\* two cranks power a machine on planks and research, with wood for one
\* run of the recipe once the node has delivered; seed 87 finds a recipe,
\* and which one falls to the planks in the inventory
Proximity ==
    << <<AddGeneratorAt("manual_crank", [x |-> 1, y |-> 1]), "c">>,
       <<AddMachineAt([x |-> 2, y |-> 0]), "a">>,
       <<AssignRecipeTo("a", "planks"), NULL>>,
       <<SetResearch(TRUE), NULL>> >>

StartStates ==
    { initialState(12345, EmptyMap),
      initialState(7, Stock),
      Run(initialState(87, Stock), OneMachine),
      Run(initialState(12345, Stock), TwoMachines),
      Run(initialState(12345, FullStock), OneMachine \o << <<Tick, NULL>> >>),
      Run(initialState(35, LowStock), Chain),
      Run(initialState(35, Stock), Discovery),
      Run(initialState(87, LowStock), Proximity) }

Init ==
    /\ state \in StartStates
    /\ error = NULL
    /\ calls = 0
    /\ replica = state

(***************************************************************************)
(* One engine() call: the state and the error it returns.                  *)
(***************************************************************************)
Step(action) ==
    /\ \E id \in IdsFor(action) :
          \E r \in {engine(state, action, id)} :
              /\ state' = r.state
              /\ error' = r.error
    /\ calls' = calls + 1
    /\ UNCHANGED replica

Simulate ==
    /\ calls < MaxCalls
    /\ Step(Tick)

AddMachine ==
    /\ calls < MaxCalls
    /\ \E a \in AddMachineCommands : Step(a)

RemoveMachine ==
    /\ calls < MaxCalls
    /\ \E a \in RemoveMachineCommands : Step(a)

AssignRecipe ==
    /\ calls < MaxCalls
    /\ \E a \in AssignRecipeCommands : Step(a)

AddGenerator ==
    /\ calls < MaxCalls
    /\ \E a \in AddGeneratorCommands : Step(a)

RemoveGenerator ==
    /\ calls < MaxCalls
    /\ \E a \in RemoveGeneratorCommands : Step(a)

BuyFloorSpace ==
    /\ calls < MaxCalls
    /\ Step(BuyFloor)

SellGoods ==
    /\ calls < MaxCalls
    /\ \E a \in SellGoodsCommands : Step(a)

ToggleResearch ==
    /\ calls < MaxCalls
    /\ \E a \in ToggleResearchCommands : Step(a)

UnlockRecipe ==
    /\ calls < MaxCalls
    /\ \E a \in UnlockRecipeCommands : Step(a)

UnblockMachine ==
    /\ calls < MaxCalls
    /\ \E a \in UnblockMachineCommands : Step(a)

ToggleMachine ==
    /\ calls < MaxCalls
    /\ \E a \in ToggleMachineCommands : Step(a)

BuyInventorySpace ==
    /\ calls < MaxCalls
    /\ Step(BuyInventory)

UnknownAction ==
    /\ calls < MaxCalls
    /\ Step(Unknown)

Next ==
    \/ Simulate
    \/ AddMachine
    \/ RemoveMachine
    \/ AssignRecipe
    \/ AddGenerator
    \/ RemoveGenerator
    \/ BuyFloorSpace
    \/ SellGoods
    \/ ToggleResearch
    \/ UnlockRecipe
    \/ UnblockMachine
    \/ ToggleMachine
    \/ BuyInventorySpace
    \/ UnknownAction

Spec == Init /\ [][Next]_vars

(***************************************************************************)
(* Two runs given the same commands: each engine() call is made on the     *)
(* state of both runs, and generateId() answers each run on its own.       *)
(***************************************************************************)
\* engine() calls per pair of runs
MaxReplays == 2

AllCommands ==
    {Tick, BuyFloor, BuyInventory, Unknown}
        \cup AddMachineCommands \cup RemoveMachineCommands
        \cup AssignRecipeCommands \cup AddGeneratorCommands
        \cup RemoveGeneratorCommands \cup SellGoodsCommands
        \cup ToggleResearchCommands \cup UnlockRecipeCommands
        \cup UnblockMachineCommands \cup ToggleMachineCommands

Replay ==
    /\ calls < MaxReplays
    /\ \E action \in AllCommands :
          \E id1 \in IdsFor(action), id2 \in IdsFor(action) :
              \E r \in {engine(state, action, id1)} :
                  /\ state' = r.state
                  /\ error' = r.error
                  /\ replica' = engine(replica, action, id2).state
    /\ calls' = calls + 1

SpecReplay == Init /\ [][Replay]_vars

(***************************************************************************)
(* C1: two runs of one command sequence from one initial state end in      *)
(* identical states, field by field, the ids of the machines, generators   *)
(* and placements they created included.                                   *)
(***************************************************************************)
C1_Determinism == replica = state

(***************************************************************************)
(* C2: when an engine() call returns an error, the state it returns is the *)
(* state it was given, in every field, and the error is a non-empty string.*)
(***************************************************************************)
C2_RejectionLeavesState ==
    [][error' # NULL => (state' = state /\ error' # "")]_vars

\* a build was rejected for a collision, with the item to build it in stock
C2_Witness ==
    /\ error = "Position collides with existing structure"
    /\ Get(state.inventory, rules.machines.itemId) > 0

(***************************************************************************)
(* C3: for every item, inventory[item] x weight(item) <= inventorySpace,   *)
(* after every tick and every accepted command.                            *)
(***************************************************************************)
C3_CapacityInvariant ==
    \A k \in DOMAIN state.inventory :
        state.inventory[k] * getItemWeight(k) <= state.inventorySpace

(***************************************************************************)
(* C4: no two placements' footprints share a cell, and every footprint     *)
(* lies inside [0, width) x [0, height).                                   *)
(***************************************************************************)
\* the cells a placement covers, wholly or in part
Cells(p) ==
    LET side == (p.size + 999) \div 1000
    IN  (p.x .. (p.x + side - 1)) \X (p.y .. (p.y + side - 1))

C4_NonOverlap ==
    LET placements == state.floorSpace.placements
        floor      == (0 .. (state.floorSpace.width - 1))
                        \X (0 .. (state.floorSpace.height - 1))
    IN  /\ \A i \in DOMAIN placements : Cells(placements[i]) \subseteq floor
        /\ \A i \in DOMAIN placements, j \in DOMAIN placements :
              i < j => Cells(placements[i]) \cap Cells(placements[j]) = {}

\* four structures stand on a floor that was expanded
C4_Witness ==
    /\ Len(state.floorSpace.placements) >= 4
    /\ state.floorSpace.width > 8
    /\ calls > 0

(***************************************************************************)
(* C5: in a tick each machine either completes its recipe (its buffer is   *)
(* debited by the recipe's inputs and the inventory credited by its full   *)
(* outputs) or neither happens: over the tick, what inventory and buffers  *)
(* hold of every item changes by what was extracted plus, for the machines *)
(* that completed, outputs minus inputs.                                   *)
(***************************************************************************)
RECURSIVE Buffered(_, _)
Buffered(machines, k) ==
    IF machines = <<>> THEN 0
    ELSE Get(Head(machines).internalBuffer, k) + Buffered(Tail(machines), k)

\* what the inventory and all buffers hold of an item
Held(s, k) == Get(s.inventory, k) + Buffered(s.machines, k)

ItemsOf(s) ==
    DOMAIN rules.materials \cup DOMAIN s.inventory
        \cup UNION {DOMAIN s.machines[i].internalBuffer : i \in DOMAIN s.machines}

\* outputs minus inputs of the recipes of the machines in K
RECURSIVE NetOutput(_, _, _, _)
NetOutput(machines, i, K, k) ==
    IF i > Len(machines) THEN 0
    ELSE (IF i \in K
          THEN LET recipe == rules.recipes[recipeIndex(machines[i].recipeId)]
               IN  Get(recipe.outputs, k) - Get(recipe.inputs, k)
          ELSE 0)
         + NetOutput(machines, i + 1, K, k)

Extracted(s, k) ==
    Get(extract(s.inventory, s.extractionNodes, s.inventorySpace), k)
        - Get(s.inventory, k)

Conserved(s, t) ==
    \E K \in SUBSET {i \in DOMAIN s.machines : recipeIndex(s.machines[i].recipeId) # 0} :
        /\ \A k \in ItemsOf(s) \cup ItemsOf(t) :
              Held(t, k) = Held(s, k) + Extracted(s, k) + NetOutput(s.machines, 1, K, k)
        /\ \A i \in DOMAIN s.machines :
              IF i \in K
              THEN \A k \in DOMAIN t.machines[i].internalBuffer :
                      t.machines[i].internalBuffer[k] = 0
              ELSE \A k \in DOMAIN s.machines[i].internalBuffer :
                      Get(t.machines[i].internalBuffer, k)
                          >= s.machines[i].internalBuffer[k]

C5_Conservation ==
    [][state'.tick = state.tick + 1 => Conserved(state, state')]_vars

\* ticks in which one machine completed (a beam was made) while another
\* holds inputs it has not used
C5_Witness ==
    /\ Get(state.inventory, "wooden_beam") > 0
    /\ \E i \in DOMAIN state.machines : state.machines[i].internalBuffer # EmptyMap

(***************************************************************************)
(* C6: at the end of every tick energy.consumed <= energy.produced.        *)
(***************************************************************************)
C6_EnergyAfterTick ==
    [][state'.tick = state.tick + 1
          => state'.energy.consumed <= state'.energy.produced]_vars

\* a tick has blocked a machine to cover a deficit
C6_Witness ==
    /\ calls > 0
    /\ state.tick > 0
    /\ \E i \in DOMAIN state.machines : state.machines[i].status = "blocked"
    /\ state.energy.consumed <= state.energy.produced

(***************************************************************************)
(* C7: an accepted REMOVE_MACHINE or ASSIGN_RECIPE returns the machine's   *)
(* buffer to the inventory and leaves nothing buffered in it: for every    *)
(* item, inventory plus all buffers is unchanged.                          *)
(***************************************************************************)
BufferCommands == RemoveMachineCommands \cup AssignRecipeCommands

\* the machine a command names: the first one with the id
Named(s, action) ==
    FindIndex(s.machines, {m \in Range(s.machines) : m.id = action.payload.machineId})

C7_BufferReturned ==
    \A action \in BufferCommands :
        LET r == engine(state, action, NULL)
            i == Named(state, action)
        IN  r.error = NULL =>
              /\ \A k \in ItemsOf(state) \cup ItemsOf(r.state) :
                    Held(r.state, k) = Held(state, k)
              /\ \A k \in DOMAIN state.machines[i].internalBuffer :
                    Get(r.state.inventory, k)
                        = Get(state.inventory, k) + state.machines[i].internalBuffer[k]
              /\ action.type = "ASSIGN_RECIPE"
                    => r.state.machines[i].internalBuffer = EmptyMap
              /\ action.type = "REMOVE_MACHINE"
                    => r.state.machines = Splice(state.machines, i)

\* a machine that holds inputs can be removed or reassigned in the next call
C7_Witness ==
    /\ calls > 0
    /\ calls < MaxCalls
    /\ \E action \in BufferCommands :
          /\ engine(state, action, NULL).error = NULL
          /\ state.machines[Named(state, action)].internalBuffer # EmptyMap

(***************************************************************************)
(* C8: the placements are those of the current machines and generators:   *)
(* one placement per structure, with its id, its kind and its x, y.        *)
(***************************************************************************)
Count(seq, e) == Cardinality({i \in DOMAIN seq : seq[i] = e})

Footing(kind, e) == [id |-> e.id, type |-> kind, x |-> e.x, y |-> e.y]

C8_PlacementsInSync ==
    LET placed == [i \in DOMAIN state.floorSpace.placements |->
                      Footing(state.floorSpace.placements[i].type,
                              state.floorSpace.placements[i])]
        built  == [i \in DOMAIN state.machines |-> Footing("machine", state.machines[i])]
                    \o [i \in DOMAIN state.generators |->
                          Footing("generator", state.generators[i])]
    IN  \A e \in Range(placed) \cup Range(built) : Count(placed, e) = Count(built, e)

(***************************************************************************)
(* C9: a machine's buffer holds, of every item, at most what its assigned  *)
(* recipe requires; it holds no item that is not an input of that recipe,  *)
(* and it is empty when no recipe is assigned.                             *)
(***************************************************************************)
RequiredBy(machine) ==
    IF machine.recipeId = NULL \/ recipeIndex(machine.recipeId) = 0 THEN EmptyMap
    ELSE rules.recipes[recipeIndex(machine.recipeId)].inputs

C9_BufferWithinRecipe ==
    \A i \in DOMAIN state.machines :
        LET machine == state.machines[i]
        IN  \A k \in DOMAIN machine.internalBuffer :
                /\ k \in DOMAIN RequiredBy(machine)
                /\ machine.internalBuffer[k] <= RequiredBy(machine)[k]

\* one machine holds part of an input, another all of its inputs
C9_Witness ==
    /\ calls > 0
    /\ \E i \in DOMAIN state.machines, k \in DOMAIN rules.materials :
          /\ Get(state.machines[i].internalBuffer, k) > 0
          /\ Get(state.machines[i].internalBuffer, k)
                < Get(RequiredBy(state.machines[i]), k)

(***************************************************************************)
(* C10: unlockedRecipes is a subset of discoveredRecipes; neither list     *)
(* holds an id twice, and no operation removes an id from either.          *)
(***************************************************************************)
NoDuplicates(seq) == Cardinality(Range(seq)) = Len(seq)

C10_UnlockedDiscovered ==
    /\ [](/\ Range(state.unlockedRecipes) \subseteq Range(state.discoveredRecipes)
          /\ NoDuplicates(state.unlockedRecipes)
          /\ NoDuplicates(state.discoveredRecipes))
    /\ [][/\ Range(state.unlockedRecipes) \subseteq Range(state'.unlockedRecipes)
          /\ Range(state.discoveredRecipes) \subseteq Range(state'.discoveredRecipes)]_vars

\* a recipe found by research in this run was unlocked
C10_Witness ==
    /\ calls > 0
    /\ "iron_plate" \in Range(state.unlockedRecipes)

(***************************************************************************)
(* C11: every key present in the inventory maps to a quantity greater than *)
(* zero: a sale, a build that consumes an item and a machine's pull phase  *)
(* remove the key when they bring its quantity to zero.                    *)
(***************************************************************************)
C11_NoZeroKeys ==
    \A itemId \in DOMAIN state.inventory : state.inventory[itemId] > 0

(***************************************************************************)
(* C12: every machine's assigned recipe is none, or a recipe of the rules  *)
(* that is in unlockedRecipes. ASSIGN_RECIPE of an unknown recipe or of   *)
(* one that is not unlocked (only discovered, say) is rejected,            *)
(* UNLOCK_RECIPE of a recipe that was not discovered is rejected, and an   *)
(* unlock is never undone.                                                 *)
(***************************************************************************)
Assignable(s, recipeId) ==
    /\ recipeId \in {rules.recipes[i].id : i \in DOMAIN rules.recipes}
    /\ recipeId \in Range(s.unlockedRecipes)

C12_AssignedUnlocked ==
    /\ [](/\ \A m \in Range(state.machines) :
                m.recipeId = NULL \/ Assignable(state, m.recipeId)
          /\ \A action \in AssignRecipeCommands :
                (/\ action.payload.recipeId # NULL
                 /\ ~Assignable(state, action.payload.recipeId))
                    => engine(state, action, NULL).error # NULL
          /\ \A action \in UnlockRecipeCommands :
                action.payload.recipeId \notin Range(state.discoveredRecipes)
                    => engine(state, action, NULL).error # NULL)
    /\ [][Range(state.unlockedRecipes) \subseteq Range(state'.unlockedRecipes)]_vars

\* a recipe that research discovered was refused to a machine: it is not
\* unlocked yet
C12_Witness ==
    /\ error = "Recipe not unlocked"
    /\ "wooden_beam" \in Range(state.discoveredRecipes)
    /\ "wooden_beam" \notin Range(state.unlockedRecipes)
    /\ \E m \in Range(state.machines) : m.id = "a" /\ m.recipeId = NULL

(***************************************************************************)
(* Extraction alone: one active node, no machine, and nothing but ticks.   *)
(***************************************************************************)
\* ticks per run
MaxTicks == 52

ExtractedItems == {"wood", "planks", "iron_ingot"}

ExtractionRates == {1, 2, 3}

oneNode(resourceType, rate) ==
    [initialState(12345, EmptyMap) EXCEPT
        !.extractionNodes = << [id |-> "node_1", resourceType |-> resourceType,
                                rate |-> rate, active |-> TRUE] >>]

InitExtraction ==
    /\ state \in {oneNode(i, r) : i \in ExtractedItems, r \in ExtractionRates}
    /\ error = NULL
    /\ calls = 0
    /\ replica = state

ExtractionTick ==
    /\ calls < MaxTicks
    /\ Step(Tick)

SpecExtraction == InitExtraction /\ [][ExtractionTick]_vars

(***************************************************************************)
(* C13: with one active node of rate r for an item of weight w and no      *)
(* machine, a tick adds min(r, floor(inventorySpace / w) - current) of the *)
(* item. At rate 2, weight 1 and capacity 100 an empty inventory holds 2   *)
(* wood after one tick, 100 after 51 ticks, and 100 ever after.            *)
(***************************************************************************)
C13_Extraction ==
    /\ [][LET node    == state.extractionNodes[1]
              item    == node.resourceType
              current == Get(state.inventory, item)
              limit   == state.inventorySpace \div rules.materials[item].weight
          IN  Get(state'.inventory, item)
                  = current + Min(node.rate, limit - current)]_vars
    /\ [](state.extractionNodes[1] = [id |-> "node_1", resourceType |-> "wood",
                                      rate |-> 2, active |-> TRUE]
            => /\ state.tick = 1 => state.inventory = [wood |-> 2]
               /\ state.tick >= 51 => state.inventory = [wood |-> 100])

\* the wood node has filled the inventory, and a tick more changed nothing
C13_Witness ==
    /\ state.extractionNodes[1].resourceType = "wood"
    /\ state.extractionNodes[1].rate = 2
    /\ state.tick = 52
    /\ state.inventory = [wood |-> 100]

(***************************************************************************)
(* C14: an accepted SELL_GOODS of q units of an item adds exactly          *)
(* floor(basePrice * m * q) to the credits, m being the item's tracked     *)
(* popularity, or 1.0 when it is not tracked, and takes q from the         *)
(* inventory; the sale is rejected when the inventory holds fewer than q   *)
(* or the item is not in the materials list.                               *)
(***************************************************************************)
\* multipliers are in hundredths
Multiplier(s, itemId) ==
    IF itemId \in DOMAIN s.marketPopularity THEN s.marketPopularity[itemId]
    ELSE 100

Decayed(p, quantity) ==
    Max(rules.market.minPopularity, p - quantity * rules.market.decayRate)

MaxPlacements == 3

StructureStock ==
    [production_machine |-> 2, water_wheel |-> 1, manual_crank |-> 1]

InitPlacement ==
    /\ state = initialState(12345, StructureStock)
    /\ error = NULL
    /\ calls = 0
    /\ replica = state

PlaceMachine ==
    /\ calls < MaxPlacements
    /\ \E action \in AddMachineCommands : Step(action)

PlaceGenerator ==
    /\ calls < MaxPlacements
    /\ \E action \in AddGeneratorCommands : Step(action)

TakeMachine ==
    /\ calls < MaxPlacements
    /\ \E action \in RemoveMachineCommands : Step(action)

TakeGenerator ==
    /\ calls < MaxPlacements
    /\ \E action \in RemoveGeneratorCommands : Step(action)

ExpandFloor ==
    /\ calls < MaxPlacements
    /\ Step(BuyFloor)

SpecPlacement ==
    InitPlacement
        /\ [][PlaceMachine \/ PlaceGenerator \/ TakeMachine \/ TakeGenerator
                \/ ExpandFloor]_vars

(***************************************************************************)
(* C16: for integer x, y and sizes canPlaceAt answers 'out of bounds' if   *)
(* and only if the footprint [x, x+size) x [y, y+size) leaves the floor,   *)
(* otherwise 'collision' if and only if the footprint shares a cell with   *)
(* an existing placement (footprints that touch at an edge do not), and    *)
(* otherwise valid. With a machine of size 2 at (0,0), a generator of size *)
(* 2 is rejected at (1,1) with a collision error and accepted at (2,0).    *)
(***************************************************************************)
ProbedSizes == {1000, 2000, 3000}

Footprint(x, y, size) == Cells([x |-> x, y |-> y, size |-> size])

C16_CanPlaceAt ==
    LET width      == state.floorSpace.width
        height     == state.floorSpace.height
        placements == state.floorSpace.placements
        floor      == (0 .. (width - 1)) \X (0 .. (height - 1))
        taken      == UNION {Cells(placements[i]) : i \in DOMAIN placements}
    IN  /\ \A x \in -1 .. width, y \in -1 .. height, size \in ProbedSizes :
              canPlaceAt(state, x, y, size) =
                  IF ~(Footprint(x, y, size) \subseteq floor)
                  THEN [valid |-> FALSE, error |-> "Position out of bounds"]
                  ELSE IF Footprint(x, y, size) \cap taken # {}
                  THEN [valid |-> FALSE,
                        error |-> "Position collides with existing structure"]
                  ELSE [valid |-> TRUE, error |-> NULL]
        /\ (/\ \E i \in DOMAIN placements :
                  /\ placements[i].type = "machine"
                  /\ <<placements[i].x, placements[i].y>> = <<0, 0>>
                  /\ placements[i].size = 2000
            /\ Get(state.inventory, "water_wheel") > 0)
              => /\ engine(state, AddGeneratorAt("water_wheel", [x |-> 1, y |-> 1]),
                           "b").error
                     = "Position collides with existing structure"
                 /\ (\A i \in DOMAIN placements :
                        \/ placements[i].id = "starter_crank"
                        \/ <<placements[i].x, placements[i].y>> = <<0, 0>>)
                      => engine(state,
                                AddGeneratorAt("water_wheel", [x |-> 2, y |-> 0]),
                                "b").error = NULL

\* next to the machine at (0,0) stands the water wheel, at (2,0); what was
\* to be built then hit one of them
C16_Witness ==
    /\ error = "Position collides with existing structure"
    /\ \E i \in DOMAIN state.floorSpace.placements :
          state.floorSpace.placements[i]
              = [id |-> "a", x |-> 0, y |-> 0, size |-> 2000, type |-> "machine"]
    /\ \E i \in DOMAIN state.floorSpace.placements :
          state.floorSpace.placements[i]
              = [id |-> "b", x |-> 2, y |-> 0, size |-> 2000, type |-> "generator"]

(***************************************************************************)
(* Floor expansion alone: the floor is expanded as far as the credits go,  *)
(* and goods are sold in between.                                          *)
(***************************************************************************)
\* engine() calls per run
MaxExpansions == 6

\* the credits a run starts with: those of initialState, and savings
Budgets == {500, 3000}

InitFloor ==
    /\ state \in {[initialState(12345, Stock) EXCEPT !.credits = c] : c \in Budgets}
    /\ error = NULL
    /\ calls = 0
    /\ replica = state

Expand ==
    /\ calls < MaxExpansions
    /\ Step(BuyFloor)

Earn ==
    /\ calls < MaxExpansions
    /\ \E action \in SellGoodsCommands : Step(action)

SpecFloor == InitFloor /\ [][Expand \/ Earn]_vars

(***************************************************************************)
(* C17: from an 8x8 floor with initial width 8 and initial chunk size 8,   *)
(* the accepted BUY_FLOOR_SPACE commands give the dimensions 16x8, 16x16,  *)
(* 32x16, 32x32, 64x32 and so on: the width grows to twice the last        *)
(* square, then the height, and the chunk doubles at every square.         *)
(***************************************************************************)
ExpansionSequence ==
    << <<8, 8>>, <<16, 8>>, <<16, 16>>, <<32, 16>>, <<32, 32>>, <<64, 32>>,
       <<64, 64>>, <<128, 64>> >>

Dimensions(s) == <<s.floorSpace.width, s.floorSpace.height>>

C17_ExpansionSequence ==
    LET r == engine(state, BuyFloor, NULL)
    IN  /\ \E i \in DOMAIN ExpansionSequence : Dimensions(state) = ExpansionSequence[i]
        /\ r.error = NULL =>
              \E i \in 1 .. (Len(ExpansionSequence) - 1) :
                  /\ Dimensions(state) = ExpansionSequence[i]
                  /\ Dimensions(r.state) = ExpansionSequence[i + 1]

\* five expansions were bought
C17_Witness ==
    /\ calls = 5
    /\ Dimensions(state) = <<64, 32>>
    /\ error = NULL

(***************************************************************************)
(* C18: the credits an accepted BUY_FLOOR_SPACE takes are (newWidth *      *)
(* newHeight - oldWidth * oldHeight) * costPerCell, the cells the floor    *)
(* gains times the cost of a cell, at every step of the sequence.         *)
(***************************************************************************)
Area(s) == s.floorSpace.width * s.floorSpace.height

C18_CostOfCellsAdded ==
    LET r == engine(state, BuyFloor, NULL)
    IN  r.error = NULL =>
            state.credits - r.state.credits
                = (Area(r.state) - Area(state)) * rules.floorSpace.costPerCell

(***************************************************************************)
(* The generator alone: two generators made by createRNG from one seed,    *)
(* each with its own currentSeed, and next() called on either.             *)
(***************************************************************************)
\* next() calls per generator
MaxDraws == 6

Seeds == {12345, 7, 35, 87, 0, -1, 2147483647, -2147483647}

createRNG(seed) == [currentSeed |-> seed, value |-> NULL, drawn |-> 0]

next(rng) ==
    Bind(rngNext(rng.currentSeed), LAMBDA r :
        [currentSeed |-> r.seed, value |-> r.value, drawn |-> rng.drawn + 1])

InitRNG ==
    /\ state \in {createRNG(seed) : seed \in Seeds}
    /\ replica = state
    /\ error = NULL
    /\ calls = 0

NextOfFirst ==
    /\ state.drawn < MaxDraws
    /\ state' = next(state)
    /\ calls' = calls + 1
    /\ UNCHANGED <<replica, error>>

NextOfSecond ==
    /\ replica.drawn < MaxDraws
    /\ replica' = next(replica)
    /\ calls' = calls + 1
    /\ UNCHANGED <<state, error>>

SpecRNG == InitRNG /\ [][NextOfFirst \/ NextOfSecond]_vars

(***************************************************************************)
(* C19: next() returns a value v with 0 <= v < 1, computed in 32-bit       *)
(* wraparound arithmetic, and two generators created from the same seed    *)
(* have returned the same value and hold the same seed after the same      *)
(* number of calls. The value is the numerator of v / 4294967296, in two   *)
(* halves of 16 bits.                                                      *)
(***************************************************************************)
InUnitInterval(value) ==
    /\ value[1] \in 0 .. 65535
    /\ value[2] \in 0 .. 65535

RECURSIVE Advanced(_, _)
Advanced(seed, draws) ==
    IF draws = 0 THEN seed
    ELSE Advanced(ToInt32(Add32(ToWord(seed), Increment)), draws - 1)

C20_SeedAdvance ==
    [][state'.tick = state.tick + 1 =>
        LET spare    == state'.energy.produced - state'.energy.consumed
            runs     == state.research.active /\ spare >= rules.research.energyCost
            selected == Len(state'.discoveredRecipes) > Len(state.discoveredRecipes)
            draws    == IF ~runs THEN 0 ELSE IF selected THEN 2 ELSE 1
        IN  /\ selected => runs
            /\ state'.rngSeed = Advanced(state.rngSeed, draws)]_vars

\* from seed 7 a tick drew twice and found a recipe, and the tick after it
\* drew once, from the seed the first had stored
C20_Witness ==
    /\ state.tick = 2
    /\ "iron_plate" \in Range(state.discoveredRecipes)
    /\ state.rngSeed = Advanced(7, 3)
    /\ state.rngSeed = 1199730150

(***************************************************************************)
(* C21: when demand exceeds supply at the start of a tick, the machines    *)
(* the tick newly blocks are eligible machines (enabled, assigned, not     *)
(* blocked) taken from the end of the machine list backwards, up to the    *)
(* point where their draw covers the deficit: no eligible machine is       *)
(* blocked while a later eligible machine stays unblocked, and without the *)
(* earliest of the newly blocked machines a deficit would remain.          *)
(***************************************************************************)
Eligible(machine) ==
    machine.enabled /\ machine.recipeId # NULL /\ machine.status # "blocked"

RECURSIVE DrawOf(_, _)
DrawOf(machines, indices) ==
    IF indices = {} THEN 0
    ELSE LET i == CHOOSE i \in indices : TRUE
         IN  machines[i].energyConsumption + DrawOf(machines, indices \ {i})

RECURSIVE OutputOf(_, _)
OutputOf(generators, indices) ==
    IF indices = {} THEN 0
    ELSE LET i == CHOOSE i \in indices : TRUE
         IN  generators[i].energyOutput + OutputOf(generators, indices \ {i})

\* demand minus supply at the start of a tick
Deficit(s) ==
    DrawOf(s.machines, {i \in DOMAIN s.machines : Eligible(s.machines[i])})
        - OutputOf(s.generators, DOMAIN s.generators)

NewlyBlocked(s, t) ==
    {i \in DOMAIN s.machines :
        s.machines[i].status # "blocked" /\ t.machines[i].status = "blocked"}

C21_DeficitWalk ==
    [][state'.tick = state.tick + 1 =>
        LET eligible == {i \in DOMAIN state.machines : Eligible(state.machines[i])}
            blocked  == NewlyBlocked(state, state')
            first    == CHOOSE i \in blocked : \A j \in blocked : i <= j
        IN  /\ blocked \subseteq eligible
            /\ \A i \in blocked : \A j \in eligible : j > i => j \in blocked
            /\ Deficit(state) <= 0 => blocked = {}
            /\ Deficit(state) > 0 =>
                  /\ blocked # {}
                  /\ DrawOf(state.machines, blocked \ {first}) < Deficit(state)
                  /\ \/ DrawOf(state.machines, blocked) >= Deficit(state)
                     \/ blocked = eligible]_vars

\* with no generator left the tick blocked both machines, and the deficit
\* of 4 needed both
C21_Witness ==
    /\ calls > 0
    /\ state.tick > 0
    /\ state.generators = << >>
    /\ Len(state.machines) = 2
    /\ \A i \in DOMAIN state.machines : state.machines[i].status = "blocked"

(***************************************************************************)
(* C22: a tick never moves a blocked machine back to working or idle, even *)
(* when supply covers demand again: a blocked machine stays blocked, pulls *)
(* no input, produces nothing and is not counted in energy.consumed.       *)
(***************************************************************************)
\* the items no extraction node delivers
NotExtracted(s) ==
    {k \in DOMAIN rules.materials :
        \A i \in DOMAIN s.extractionNodes : s.extractionNodes[i].resourceType # k}

C22_BlockedStaysBlocked ==
    [][state'.tick = state.tick + 1 =>
        LET wasBlocked == {i \in DOMAIN state.machines :
                              state.machines[i].status = "blocked"}
        IN  /\ \A i \in wasBlocked : state'.machines[i] = state.machines[i]
            /\ state'.energy.consumed
                  = DrawOf(state'.machines,
                           {i \in DOMAIN state'.machines : Eligible(state'.machines[i])})
            /\ (\A i \in DOMAIN state.machines :
                    i \in wasBlocked \/ state.machines[i].recipeId = NULL)
                  => \A k \in NotExtracted(state) :
                        Get(state'.inventory, k) = Get(state.inventory, k)]_vars

\* the second machine was blocked by a tick; a crank was built, and the next
\* tick left the machine blocked although the supply now covers its draw
C22_Witness ==
    /\ state.tick = 2
    /\ Len(state.machines) = 2
    /\ state.machines[1].status = "working"
    /\ state.machines[2].status = "blocked"
    /\ state.machines[2].enabled
    /\ state.energy.produced
          >= state.energy.consumed + state.machines[2].energyConsumption

(***************************************************************************)
(* C23: a machine leaves the blocked status only through an                *)
(* UNBLOCK_MACHINE command that names it, which sets it to working if it   *)
(* has a recipe and to idle otherwise and is rejected for a machine that   *)
(* is not blocked, or by being removed; no other command changes the       *)
(* status of a blocked machine.                                            *)
(***************************************************************************)
C23_BlockedUntilUnblocked ==
    /\ \A action \in AllCommands \ (UnblockMachineCommands \cup RemoveMachineCommands) :
          \A id \in IdsFor(action) :
              \A i \in DOMAIN state.machines :
                  state.machines[i].status = "blocked"
                      => engine(state, action, id).state.machines[i].status = "blocked"
    /\ \A action \in UnblockMachineCommands :
          LET r == engine(state, action, NULL)
              i == Named(state, action)
          IN  IF i # 0 /\ state.machines[i].status = "blocked"
              THEN /\ r.error = NULL
                   /\ r.state.machines[i].status
                        = IF state.machines[i].recipeId # NULL THEN "working" ELSE "idle"
                   /\ \A j \in DOMAIN state.machines \ {i} :
                         r.state.machines[j] = state.machines[j]
              ELSE r.error # NULL

(***************************************************************************)
(* The weighted selection of research, stated on its own: weights are in   *)
(* halves, v is the numerator of the second draw.                          *)
(***************************************************************************)
Weight(recipe, inventory) ==
    2 + rules.research.proximityWeight
          * Cardinality({k \in DOMAIN recipe.inputs : Get(inventory, k) > 0})

RECURSIVE RunningSum(_, _, _)
RunningSum(recipes, inventory, i) ==
    IF i = 0 THEN 0
    ELSE Weight(recipes[i], inventory) + RunningSum(recipes, inventory, i - 1)

\* sum / 2 >= (v / 2^32) * (total / 2)
Reaches(sum, v, total) ==
    LET q == v[1] * total + ((v[2] * total) \div 65536)
    IN  \/ sum * 65536 > q
        \/ sum * 65536 = q /\ (v[2] * total) % 65536 = 0

Undiscovered(s) ==
    SelectSeq(rules.recipes, LAMBDA r : r.id \notin Range(s.discoveredRecipes))

\* the value of the n-th draw of a generator made from seed
RECURSIVE Draw(_, _)
Draw(seed, n) ==
    IF n = 1 THEN rngNext(seed).value ELSE Draw(rngNext(seed).seed, n - 1)

\* the recipe the walk stops at, for the weights an inventory gives
Chosen(s, inventory, v) ==
    LET recipes == Undiscovered(s)
        total   == RunningSum(recipes, inventory, Len(recipes))
        stop    == CHOOSE i \in DOMAIN recipes :
                      /\ Reaches(RunningSum(recipes, inventory, i), v, total)
                      /\ \A j \in 1 .. (i - 1) :
                            ~Reaches(RunningSum(recipes, inventory, j), v, total)
    IN  recipes[stop].id

(***************************************************************************)
(* C24: within a tick the phases run in the order power allocation,        *)
(* extraction, machine production, research, market recovery, tick and     *)
(* seed advance: what a node delivers in a tick can be pulled by a machine *)
(* in that tick, a machine blocked by the tick's power allocation neither  *)
(* pulls nor produces in it, and research weighs the recipes by the        *)
(* inventory as it stands after production.                                *)
(***************************************************************************)
\* what the first machine of the list pulls of item k, out of the inventory
\* the nodes have delivered to
PullOfFirst(s, k) ==
    LET machine == s.machines[1]
        recipe  == rules.recipes[recipeIndex(machine.recipeId)]
        missing == recipe.inputs[k] - Get(machine.internalBuffer, k)
    IN  Max(0, Min(missing, Get(s.inventory, k) + Extracted(s, k)))

C24_PhaseOrder ==
    [][state'.tick = state.tick + 1 =>
        /\ (/\ state.machines # << >>
            /\ Eligible(state'.machines[1])
            /\ Assignable(state, state.machines[1].recipeId))
              => LET recipe == rules.recipes[recipeIndex(state.machines[1].recipeId)]
                     buffer == state.machines[1].internalBuffer
                     filled == [k \in DOMAIN recipe.inputs |->
                                   Get(buffer, k) + PullOfFirst(state, k)]
                     full   == \A k \in DOMAIN recipe.inputs :
                                   filled[k] >= recipe.inputs[k]
                 IN  \/ \A k \in DOMAIN recipe.inputs :
                           Get(state'.machines[1].internalBuffer, k) = filled[k]
                     \/ /\ full
                        /\ \A k \in DOMAIN recipe.inputs :
                              Get(state'.machines[1].internalBuffer, k)
                                  = filled[k] - recipe.inputs[k]
        /\ \A i \in NewlyBlocked(state, state') :
              state'.machines[i].internalBuffer = state.machines[i].internalBuffer
        /\ (\A i \in DOMAIN state.machines :
                Eligible(state.machines[i]) => i \in NewlyBlocked(state, state'))
              => \A k \in NotExtracted(state) :
                    Get(state'.inventory, k) = Get(state.inventory, k)
        /\ Len(state'.discoveredRecipes) > Len(state.discoveredRecipes)
              => state'.discoveredRecipes
                    = Append(state.discoveredRecipes,
                             Chosen(state, state'.inventory, Draw(state.rngSeed, 2)))
      ]_vars

\* one tick from 1 wood and no planks: the node delivered 2 wood, the machine
\* pulled 2 and made 1 planks, and with planks in the inventory the second
\* draw of seed 87 fell on wooden_beam, not on iron_plate
C24_Witness ==
    /\ state.tick = 1
    /\ state.rngSeed = Advanced(87, 2)
    /\ state.inventory = [wood |-> 1, planks |-> 1, production_machine |-> 1]
    /\ state.discoveredRecipes = <<"planks", "wooden_beam">>

(***************************************************************************)
(* C25: if a machine's buffer holds the full input set and some output     *)
(* lacks the capacity for its full quantity, the tick leaves the buffer    *)
(* and every output quantity unchanged and returns no input to the         *)
(* inventory; once capacity is freed, by a sale of the output or a storage *)
(* expansion, the next tick completes the recipe from the held buffer      *)
(* without pulling those inputs again. Stated for the first machine of the *)
(* list, and for the inventory where it is the only machine.               *)
(***************************************************************************)
RoomFor(s, recipe) ==
    \A k \in DOMAIN recipe.outputs :
        (s.inventorySpace \div rules.materials[k].weight)
            - (Get(s.inventory, k) + Extracted(s, k)) >= recipe.outputs[k]

C25_StalledBufferHeld ==
    [][(/\ state'.tick = state.tick + 1
        /\ state.machines # << >>
        /\ Eligible(state'.machines[1])
        /\ Assignable(state, state.machines[1].recipeId)
        /\ LET recipe == rules.recipes[recipeIndex(state.machines[1].recipeId)]
           IN  \A k \in DOMAIN recipe.inputs :
                  Get(state.machines[1].internalBuffer, k) + PullOfFirst(state, k)
                      = recipe.inputs[k])
        => LET recipe == rules.recipes[recipeIndex(state.machines[1].recipeId)]
               alone  == Len(state.machines) = 1
               \* the inventory apart from what the machine puts out
               rest(k) == Get(state.inventory, k) + Extracted(state, k)
                              - (IF k \in DOMAIN recipe.inputs
                                 THEN PullOfFirst(state, k) ELSE 0)
           IN  IF RoomFor(state, recipe)
               THEN /\ \A k \in DOMAIN recipe.inputs :
                          Get(state'.machines[1].internalBuffer, k) = 0
                    /\ alone =>
                          /\ \A k \in DOMAIN recipe.inputs :
                                Get(state'.inventory, k) = rest(k)
                          /\ \A k \in DOMAIN recipe.outputs :
                                Get(state'.inventory, k) = rest(k) + recipe.outputs[k]
               ELSE /\ \A k \in DOMAIN recipe.inputs :
                          Get(state'.machines[1].internalBuffer, k) = recipe.inputs[k]
                    /\ alone =>
                          \A k \in DOMAIN recipe.inputs \cup DOMAIN recipe.outputs :
                              Get(state'.inventory, k) = rest(k)]_vars

\* the machine held 2 wood while planks were at their limit of 50; 1 planks
\* was sold, and the next tick made 1 planks of the held wood: the wood is
\* back at 100, none was pulled
C25_Witness ==
    /\ state.tick = 2
    /\ Len(state.machines) = 1
    /\ state.machines[1].internalBuffer = EmptyMap
    /\ "planks" \in DOMAIN state.marketPopularity
    /\ Get(state.inventory, "planks") = 50
    /\ Get(state.inventory, "wood") = 100

(***************************************************************************)
(* Ticks on states whose machine names a recipe the rules given to the     *)
(* call do not have, or one that is not unlocked: engine() takes the state *)
(* and the rules as arguments, and such a state is one saved under other   *)
(* rules.                                                                  *)
(***************************************************************************)
\* engine() calls per run
MaxStaleCalls == 3

\* a recipe of the rules that is unlocked, one that is not, and one the
\* rules do not have
AssignedRecipes == {"planks", "wooden_beam", "gold"}

HeldBuffers == {EmptyMap, [wood |-> 1]}

savedState(recipeId, buffer) ==
    [Run(initialState(12345, Stock), OneMachine) EXCEPT
        !.machines[1].recipeId = recipeId,
        !.machines[1].internalBuffer = buffer]

InitSaved ==
    /\ state \in {savedState(r, b) : r \in AssignedRecipes, b \in HeldBuffers}
    /\ error = NULL
    /\ calls = 0
    /\ replica = state

SavedTick ==
    /\ calls < MaxStaleCalls
    /\ Step(Tick)

SavedSale ==
    /\ calls < MaxStaleCalls
    /\ \E action \in SellGoodsCommands : Step(action)

SavedToggle ==
    /\ calls < MaxStaleCalls
    /\ \E action \in ToggleMachineCommands : Step(action)

SpecSaved == InitSaved /\ [][SavedTick \/ SavedSale \/ SavedToggle]_vars

(***************************************************************************)
(* C26: at the end of every tick each enabled, non-blocked machine with an *)
(* assigned recipe has status working if the recipe exists in the rules    *)
(* and is unlocked, whether or not it produced, and has status idle, with  *)
(* its buffer and the inventory untouched by it, if the recipe is missing  *)
(* from the rules or not unlocked; in both cases the tick completes and    *)
(* the tick counter advances.                                              *)
(***************************************************************************)
C26_StatusAfterTick ==
    LET r == engine(state, Tick, NULL)
    IN  /\ r.error = NULL
        /\ r.state.tick = state.tick + 1
        /\ \A i \in DOMAIN state.machines :
              LET before == state.machines[i]
                  after  == r.state.machines[i]
              IN  (after.enabled /\ after.recipeId # NULL /\ after.status # "blocked")
                    => IF Assignable(state, before.recipeId)
                       THEN after.status = "working"
                       ELSE /\ after.status = "idle"
                            /\ after.internalBuffer = before.internalBuffer
                            /\ \A k \in DOMAIN rules.materials :
                                  Get(r.state.inventory, k)
                                      = Get(state.inventory, k) + Extracted(state, k)

\* a tick has passed over a machine whose recipe the rules do not have: it
\* is idle and holds what it held
C26_Witness ==
    /\ state.tick > 0
    /\ state.machines[1].recipeId = "gold"
    /\ state.machines[1].enabled
    /\ state.machines[1].status = "idle"
    /\ state.machines[1].internalBuffer = [wood |-> 1]

(***************************************************************************)
(* C27: a tick draws random values and may add to discoveredRecipes only   *)
(* if research.active is true and produced - consumed, taken after the     *)
(* power shedding, is at least rules.research.energyCost; otherwise it     *)
(* leaves discoveredRecipes and rngSeed unchanged. The energy of research  *)
(* is never added to energy.consumed.                                      *)
(***************************************************************************)
C27_ResearchGate ==
    LET t     == engine(state, Tick, NULL).state
        spare == t.energy.produced - t.energy.consumed
    IN  /\ ~(state.research.active /\ spare >= rules.research.energyCost)
              => /\ t.discoveredRecipes = state.discoveredRecipes
                 /\ t.rngSeed = state.rngSeed
        /\ t.energy.consumed
              = DrawOf(t.machines, {i \in DOMAIN t.machines : Eligible(t.machines[i])})
        /\ t.energy.produced = OutputOf(t.generators, DOMAIN t.generators)

\* research is active, the one crank leaves 1 unit beside the machine, and
\* the tick has left the seed where it was
C27_Witness ==
    /\ state.tick = 1
    /\ state.research.active
    /\ state.energy = [produced |-> 3, consumed |-> 2]
    /\ state.rngSeed = 87

(***************************************************************************)
(* C28: a tick adds at most one id to discoveredRecipes, and only the id   *)
(* of a recipe of the rules table that was undiscovered; when research     *)
(* runs, the discovery roll is below discoveryChance and at least one      *)
(* recipe is undiscovered, exactly one recipe is added: the weighted walk  *)
(* ends by selecting a recipe whatever the second draw is.                 *)
(***************************************************************************)
\* second draws at the ends and in the middle of the unit interval
ProbeDraws == {<<0, 0>>, <<0, 1>>, <<32768, 0>>, <<65535, 65535>>}

C28_OneDiscovery ==
    LET t     == engine(state, Tick, NULL).state
        old   == state.discoveredRecipes
        new   == t.discoveredRecipes
        spare == t.energy.produced - t.energy.consumed
        runs  == state.research.active /\ spare >= rules.research.energyCost
        open  == Undiscovered(state)
    IN  /\ \/ new = old
           \/ \E i \in DOMAIN rules.recipes :
                 /\ rules.recipes[i].id \notin Range(old)
                 /\ new = Append(old, rules.recipes[i].id)
        /\ (runs /\ open # << >> /\ rollBelowChance(Draw(state.rngSeed, 1)))
              => Len(new) = Len(old) + 1
        /\ open # << >>
              => \A v \in ProbeDraws :
                    selectRecipe(open, t.inventory, v,
                                 sumWeights(open, t.inventory), 0)
                        \in {open[i].id : i \in DOMAIN open}

\* from seed 7 the roll of the first tick succeeded and one recipe, iron_plate,
\* joined the list
C28_Witness ==
    /\ state.tick = 1
    /\ state.rngSeed = Advanced(7, 2)
    /\ rollBelowChance(Draw(7, 1))
    /\ Len(state.discoveredRecipes) > 1
    /\ state.discoveredRecipes[Len(state.discoveredRecipes)] = "iron_plate"
    /\ \A i \in 1 .. (Len(state.discoveredRecipes) - 1) :
          state.discoveredRecipes[i] # "iron_plate"

(***************************************************************************)
(* C29: the recipe discovered in a tick is the first undiscovered recipe,  *)
(* in the order of the rules table, at which the running sum of weights    *)
(* reaches the second draw times the total weight, where the weight of a   *)
(* recipe is 1 + proximityWeight times the number of its distinct input    *)
(* items whose inventory quantity is above 0 when research runs, after the *)
(* production of the tick.                                                 *)
(***************************************************************************)
\* second draws on and next to the boundaries between recipes
WalkDraws ==
    {<<hi, lo>> : hi \in {0, 8192, 16384, 32768, 49152, 65535},
                  lo \in {0, 1, 65535}}

\* i is the first place of the list where the running sum reaches v * total
FirstReached(recipes, inventory, v, i) ==
    LET total == RunningSum(recipes, inventory, Len(recipes))
    IN  /\ Reaches(RunningSum(recipes, inventory, i), v, total)
        /\ \A j \in 1 .. (i - 1) :
              ~Reaches(RunningSum(recipes, inventory, j), v, total)

C29_WeightedWalk ==
    LET t    == engine(state, Tick, NULL).state
        old  == state.discoveredRecipes
        new  == t.discoveredRecipes
        open == Undiscovered(state)
    IN  /\ Len(new) > Len(old)
              => \E i \in DOMAIN open :
                    /\ new[Len(new)] = open[i].id
                    /\ FirstReached(open, t.inventory, Draw(state.rngSeed, 2), i)
        /\ open # << >>
              => \A v \in WalkDraws :
                    \E i \in DOMAIN open :
                       /\ selectRecipe(open, t.inventory, v,
                                       sumWeights(open, t.inventory), 0) = open[i].id
                       /\ FirstReached(open, t.inventory, v, i)

\* from seed 87 the tick produced planks before research ran: wooden_beam,
\* whose input is planks, weighed 1.5 and was the recipe the walk stopped at
C29_Witness ==
    /\ state.tick = 1
    /\ state.rngSeed = Advanced(87, 2)
    /\ Draw(87, 2) = <<26261, 8069>>
    /\ Get(state.inventory, "planks") > 0
    /\ Weight(rules.recipes[recipeIndex("wooden_beam")], state.inventory) = 3
    /\ state.discoveredRecipes[Len(state.discoveredRecipes)] = "wooden_beam"

(***************************************************************************)
(* C30: on a tick the popularity of each tracked item becomes              *)
(* min(maxPopularity, old + recoveryRate) if the item was not sold by a    *)
(* SELL_GOODS command since the previous tick, and receives no recovery on *)
(* that tick if it was sold since the previous tick. Stated for a tick, an *)
(* accepted sale, and the tick that follows it.                            *)
(***************************************************************************)
C30_RecoveryUnlessSold ==
    \A action \in SellGoodsCommands :
        LET before == engine(state, Tick, NULL).state
            sale   == engine(before, action, NULL)
            after  == engine(sale.state, Tick, NULL).state
            sold   == action.payload.itemId
        IN  sale.error = NULL =>
              \A k \in DOMAIN sale.state.marketPopularity :
                 after.marketPopularity[k]
                    = IF k = sold THEN sale.state.marketPopularity[k]
                      ELSE Min(rules.market.maxPopularity,
                               sale.state.marketPopularity[k]
                                   + rules.market.recoveryRate)

(***************************************************************************)
(* C31: every tracked popularity multiplier lies in [minPopularity,        *)
(* maxPopularity] when the quantities sold are 1 or more, an item enters   *)
(* the popularity map only through its first sale, and no operation        *)
(* removes an item from the map. Stated for the state reached and for the  *)
(* state every further command, large sales included, leads to.            *)
(***************************************************************************)
\* sales large enough for the decay to pass minPopularity
LargeSales == {Sell(i, q) : i \in SellItems, q \in {40, 97}}

PopularityInRange(s) ==
    \A k \in DOMAIN s.marketPopularity :
        /\ s.marketPopularity[k] >= rules.market.minPopularity
        /\ s.marketPopularity[k] <= rules.market.maxPopularity

C31_PopularityRange ==
    /\ PopularityInRange(state)
    /\ \A action \in AllCommands \cup LargeSales :
          \A id \in IdsFor(action) :
             LET r == engine(state, action, id)
             IN  /\ PopularityInRange(r.state)
                 /\ DOMAIN state.marketPopularity \subseteq DOMAIN r.state.marketPopularity
                 /\ \A k \in DOMAIN r.state.marketPopularity \ DOMAIN state.marketPopularity :
                       /\ action.type = "SELL_GOODS"
                       /\ r.error = NULL
                       /\ action.payload.itemId = k

\* wood was sold once and two ticks have brought it to 1.99: the next tick
\* clamps it at 2.0 and a sale of 40 at 0.5
C31_Witness ==
    /\ state.tick >= 2
    /\ Get(state.marketPopularity, "wood") = 199
    /\ Get(state.inventory, "wood") >= 40
    /\ engine(state, Tick, NULL).state.marketPopularity["wood"]
          = rules.market.maxPopularity
    /\ engine(state, Sell("wood", 40), NULL).state.marketPopularity["wood"]
          = rules.market.minPopularity

(***************************************************************************)
(* C32: in every reachable state the stored energy snapshot is current:    *)
(* energy.produced is the sum of the generators' energyOutput and          *)
(* energy.consumed the sum of energyConsumption over the machines that are *)
(* enabled, have a recipe and are not blocked, after every tick and after  *)
(* every accepted command, ASSIGN_RECIPE, REMOVE_MACHINE, TOGGLE_MACHINE,  *)
(* UNBLOCK_MACHINE and the building or removal of a generator included.    *)
(***************************************************************************)
EnergyCurrent(s) ==
    /\ s.energy.produced = OutputOf(s.generators, DOMAIN s.generators)
    /\ s.energy.consumed
          = DrawOf(s.machines, {i \in DOMAIN s.machines : Eligible(s.machines[i])})

C32_EnergyCurrent ==
    [][(EnergyCurrent(state) /\ error' = NULL) => EnergyCurrent(state')]_vars

(***************************************************************************)
(* C33: the footprint side length of every structure is a positive         *)
(* integer: the floor-space cost of the machine and of every generator     *)
(* type of the rules is a perfect square, so getStructureSize returns an   *)
(* exact integer root and the size of every placement is an integer.       *)
(* Sizes are in thousandths.                                               *)
(***************************************************************************)
SpaceCosts ==
    {rules.machines.baseSpace}
        \cup {rules.generators.types[i].spaceCost : i \in DOMAIN rules.generators.types}

WholeSize(size) == size > 0 /\ size % 1000 = 0

C33_IntegerSizes ==
    /\ \A spaceCost \in SpaceCosts :
          /\ \E r \in 1 .. spaceCost : r * r = spaceCost
          /\ WholeSize(getStructureSize(spaceCost))
    /\ \A action \in AddMachineCommands \cup AddGeneratorCommands :
          \A id \in IdsFor(action) :
             LET placements == engine(state, action, id).state.floorSpace.placements
             IN  \A i \in DOMAIN placements : WholeSize(placements[i].size)

(***************************************************************************)
(* C34: an accepted floor expansion (BUY_FLOOR_SPACE) changes only the     *)
(* credits, reduced by the cost, and exactly one of the floor's width and  *)
(* height, increased by the chunk size: placements, machines, generators,  *)
(* inventory, tick and rngSeed are unchanged. The floor dimensions never   *)
(* decrease under any operation, and the command is rejected when the      *)
(* credits are below the cost.                                             *)
(***************************************************************************)
C34_ExpansionFrame ==
    LET r         == engine(state, BuyFloor, NULL)
        expansion == getNextExpansionChunk(state)
        chunk     == expansion.chunkSize
        grownW    == r.state.floorSpace.width - state.floorSpace.width
        grownH    == r.state.floorSpace.height - state.floorSpace.height
    IN  /\ chunk > 0
        /\ state.credits < expansion.cost => r.error # NULL /\ r.state = state
        /\ state.credits >= expansion.cost =>
              /\ r.error = NULL
              /\ r.state.credits = state.credits - expansion.cost
              /\ <<grownW, grownH>> \in {<<chunk, 0>>, <<0, chunk>>}
              /\ [r.state EXCEPT !.credits = state.credits,
                                 !.floorSpace.width = state.floorSpace.width,
                                 !.floorSpace.height = state.floorSpace.height]
                    = state
        /\ \A action \in AllCommands :
              \A id \in IdsFor(action) :
                 LET after == engine(state, action, id).state.floorSpace
                 IN  /\ after.width >= state.floorSpace.width
                     /\ after.height >= state.floorSpace.height

\* two expansions, 64 credits each, were bought in a game with a machine on
\* the floor: 8x8 became 16x8 and then 16x16
C34_Witness ==
    /\ calls = 2
    /\ error = NULL
    /\ Dimensions(state) = <<16, 16>>
    /\ state.credits = 500 - 64 - 64
    /\ state.machines # << >>
    /\ Len(state.floorSpace.placements) > 1

(***************************************************************************)
(* C35: only the tick command changes tick and rngSeed: every tick         *)
(* increases the tick counter by exactly 1, and every other command,       *)
(* accepted or rejected, leaves tick and rngSeed unchanged.                *)
(***************************************************************************)
C35_OnlyTickAdvances ==
    /\ LET r == engine(state, Tick, NULL)
       IN  r.error = NULL /\ r.state.tick = state.tick + 1
    /\ \A action \in (AllCommands \cup LargeSales) \ {Tick} :
          \A id \in IdsFor(action) :
             LET r == engine(state, action, id)
             IN  /\ r.state.tick = state.tick
                 /\ r.state.rngSeed = state.rngSeed

\* research was switched on, a tick drew twice from seed 7, and the command
\* after it was rejected
C35_Witness ==
    /\ calls = 3
    /\ state.tick = 1
    /\ state.research.active
    /\ state.rngSeed = Advanced(7, 2)
    /\ error # NULL

(***************************************************************************)
(* C36: for command sequences whose SELL quantities are 1 or more, the     *)
(* credits, every inventory quantity and every buffer quantity are 0 or    *)
(* more in every reachable state: floor and storage expansion are accepted *)
(* only when the credits cover the cost, and a pull, a sale or a build     *)
(* never takes more of an item than the inventory holds.                   *)
(***************************************************************************)
NonNegative(s) ==
    /\ s.credits >= 0
    /\ \A k \in DOMAIN s.inventory : s.inventory[k] >= 0
    /\ \A i \in DOMAIN s.machines :
          \A k \in DOMAIN s.machines[i].internalBuffer :
             s.machines[i].internalBuffer[k] >= 0

C36_NothingBelowZero ==
    /\ NonNegative(state)
    /\ \A action \in AllCommands \cup LargeSales :
          \A id \in IdsFor(action) :
             LET r    == engine(state, action, id)
                 paid == state.credits - r.state.credits
             IN  /\ NonNegative(r.state)
                 /\ (action \in {BuyFloor, BuyInventory} /\ r.error = NULL)
                       => paid > 0 /\ paid <= state.credits
                 /\ (action.type = "SELL_GOODS" /\ r.error = NULL)
                       => action.payload.quantity
                             <= Get(state.inventory, action.payload.itemId)
                 /\ (action.type = "ADD_MACHINE" /\ r.error = NULL)
                       => Get(state.inventory, rules.machines.itemId) >= 1
                 /\ (action.type = "ADD_GENERATOR" /\ r.error = NULL)
                       => Get(state.inventory, action.payload.generatorType) >= 1

\* two storage upgrades, 112 and 168 credits, left 220, and the third, at
\* 253, was rejected
C36_Witness ==
    /\ calls = 3
    /\ error = "Not enough credits"
    /\ state.inventorySpace = 200
    /\ state.credits = 500 - 112 - 168

(***************************************************************************)
(* C37: a SELL_GOODS command with a zero or negative quantity is rejected  *)
(* or changes nothing: no accepted sale increases the inventory quantity   *)
(* of the item sold, decreases the credits, or raises the item's           *)
(* popularity.                                                             *)
(***************************************************************************)
NoSaleQuantities == {0, -1, -5}

C37_NoNegativeSale ==
    \A itemId \in SellItems, quantity \in SellQuantities \cup NoSaleQuantities :
        LET r == engine(state, Sell(itemId, quantity), NULL)
        IN  /\ (quantity <= 0 /\ r.error = NULL) => r.state = state
            /\ r.error = NULL =>
                  /\ Get(r.state.inventory, itemId) <= Get(state.inventory, itemId)
                  /\ r.state.credits >= state.credits
                  /\ itemId \in DOMAIN state.marketPopularity
                        => r.state.marketPopularity[itemId]
                              <= state.marketPopularity[itemId]

(***************************************************************************)
(* C38: in every reachable state a machine with no assigned recipe has     *)
(* status idle and a machine with status blocked has a recipe assigned; a  *)
(* freshly built machine is idle, enabled, has no recipe and an empty      *)
(* buffer.                                                                 *)
(***************************************************************************)
StatusFitsRecipe(s) ==
    \A i \in DOMAIN s.machines :
        /\ s.machines[i].recipeId = NULL => s.machines[i].status = "idle"
        /\ s.machines[i].status = "blocked" => s.machines[i].recipeId # NULL

C38_StatusFitsRecipe ==
    /\ StatusFitsRecipe(state)
    /\ \A action \in AllCommands :
          \A id \in IdsFor(action) :
             LET r == engine(state, action, id)
             IN  /\ StatusFitsRecipe(r.state)
                 /\ (action.type = "ADD_MACHINE" /\ r.error = NULL)
                       => LET built == r.state.machines[Len(r.state.machines)]
                          IN  /\ Len(r.state.machines) = Len(state.machines) + 1
                              /\ built.id = id
                              /\ built.status = "idle"
                              /\ built.enabled
                              /\ built.recipeId = NULL
                              /\ built.internalBuffer = EmptyMap

\* a second machine was built, given the planks recipe, and blocked by the
\* tick for lack of power
C38_Witness ==
    /\ calls = 3
    /\ state.tick = 1
    /\ Len(state.machines) = 2
    /\ state.machines[1].status = "working"
    /\ state.machines[2].status = "blocked"
    /\ state.machines[2].recipeId = "planks"
    /\ state.energy = [produced |-> 3, consumed |-> 2]

(***************************************************************************)
(* Two powered machines and a small inventory: the machines of the Chain   *)
(* game in every pairing of the planks and wooden_beam recipes, with a few *)
(* units of wood and planks in stock, then ticks and reassignments.        *)
(***************************************************************************)
\* engine() calls per run
MaxOrderCalls == 3

OrderStocks ==
    { EmptyMap, [wood |-> 1], [wood |-> 2], [planks |-> 1], [planks |-> 2],
      [planks |-> 3], [wood |-> 1, planks |-> 1], [wood |-> 1, planks |-> 3],
      [wood |-> 2, planks |-> 2] }

OrderRecipes == {"planks", "wooden_beam"}

paired(first, second, inventory) ==
    [Run(Run(initialState(35, LowStock), Chain),
         << <<AssignRecipeTo("a", first), NULL>>,
            <<AssignRecipeTo("b", second), NULL>> >>)
        EXCEPT !.inventory = inventory]

OrderStates ==
    {paired(first, second, inventory) :
        first \in OrderRecipes, second \in OrderRecipes, inventory \in OrderStocks}

InitOrder ==
    /\ state \in OrderStates
    /\ error = NULL
    /\ calls = 0
    /\ replica = state

OrderTick ==
    /\ calls < MaxOrderCalls
    /\ Step(Tick)

OrderAssign ==
    /\ calls < MaxOrderCalls
    /\ \E id \in {"a", "b"}, recipeId \in OrderRecipes :
          Step(AssignRecipeTo(id, recipeId))

SpecOrder == InitOrder /\ [][OrderTick \/ OrderAssign]_vars

(***************************************************************************)
(* C39: within a tick the machines are processed in list (creation) order  *)
(* against the shared inventory: when the inventory holds enough of an     *)
(* input for only one of two machines that need it, the machine created    *)
(* earlier pulls it and the later one gets only what remains, and an       *)
(* output credited by an earlier machine can be pulled by a later machine  *)
(* in the same tick but not the other way round.                           *)
(***************************************************************************)
RecipeOf(machine) == rules.recipes[recipeIndex(machine.recipeId)]

\* what a machine pulls of item k out of an inventory that holds available(k)
PullFrom(machine, k, available) ==
    IF k \in DOMAIN RecipeOf(machine).inputs
    THEN Max(0, Min(RecipeOf(machine).inputs[k] - Get(machine.internalBuffer, k),
                    available))
    ELSE 0

\* the buffer was emptied by a completed run of the recipe
Completed(before, after, pull(_)) ==
    \A k \in DOMAIN RecipeOf(before).inputs :
        /\ Get(before.internalBuffer, k) + pull(k) >= RecipeOf(before).inputs[k]
        /\ Get(after.internalBuffer, k)
              = Get(before.internalBuffer, k) + pull(k) - RecipeOf(before).inputs[k]

\* the buffer holds what it held and what was pulled
Holding(before, after, pull(_)) ==
    \A k \in DOMAIN RecipeOf(before).inputs :
        Get(after.internalBuffer, k) = Get(before.internalBuffer, k) + pull(k)

Credited(machine, k, done) ==
    IF done /\ k \in DOMAIN RecipeOf(machine).outputs
    THEN RecipeOf(machine).outputs[k] ELSE 0

C39_ListOrder ==
    [][(/\ state'.tick = state.tick + 1
        /\ Len(state.machines) = 2
        /\ \A i \in {1, 2} :
              /\ Eligible(state'.machines[i])
              /\ Assignable(state, state.machines[i].recipeId))
        => LET first      == state.machines[1]
               second     == state.machines[2]
               start(k)   == Get(state.inventory, k) + Extracted(state, k)
               pull1(k)   == PullFrom(first, k, start(k))
               done1      == Completed(first, state'.machines[1], pull1)
               between(k) == start(k) - pull1(k) + Credited(first, k, done1)
               pull2(k)   == PullFrom(second, k, between(k))
               done2      == Completed(second, state'.machines[2], pull2)
           IN  /\ done1 \/ Holding(first, state'.machines[1], pull1)
               /\ done2 \/ Holding(second, state'.machines[2], pull2)
               /\ \A k \in DOMAIN rules.materials :
                     Get(state'.inventory, k)
                         = between(k) - pull2(k) + Credited(second, k, done2)]_vars

\* both machines make planks and the tick found 3 wood: the first machine
\* took 2 and completed, the second holds the 1 that remained
C39_Witness ==
    /\ state.tick = 2
    /\ Len(state.machines) = 2
    /\ state.machines[1].recipeId = "planks"
    /\ state.machines[2].recipeId = "planks"
    /\ Get(state.machines[1].internalBuffer, "wood") = 0
    /\ Get(state.machines[2].internalBuffer, "wood") = 1
    /\ Get(state.inventory, "wood") = 0
    /\ Get(state.inventory, "planks") = 1

(***************************************************************************)
(* C40: a disabled machine is not counted in energy.consumed, is never     *)
(* blocked by the deficit walk and is skipped by production: a tick leaves *)
(* its buffer, recipe and status unchanged. An accepted TOGGLE_MACHINE     *)
(* flips the enabled flag of that machine alone and refreshes the energy   *)
(* snapshot, and changes nothing else.                                     *)
(***************************************************************************)
\* the first machine of the list with the id, 0 if there is none
IndexOf(machines, id) ==
    IF \E i \in DOMAIN machines : machines[i].id = id
    THEN CHOOSE i \in DOMAIN machines :
            /\ machines[i].id = id
            /\ \A j \in 1 .. (i - 1) : machines[j].id # id
    ELSE 0

EnabledDraw(machines) ==
    DrawOf(machines, {i \in DOMAIN machines :
                         /\ machines[i].enabled
                         /\ machines[i].recipeId # NULL
                         /\ machines[i].status # "blocked"})

C40_DisabledMachine ==
    /\ LET t == engine(state, Tick, NULL).state
       IN  /\ \A i \in DOMAIN state.machines :
                 ~state.machines[i].enabled => t.machines[i] = state.machines[i]
           /\ t.energy.consumed = EnabledDraw(t.machines)
    /\ \A action \in ToggleMachineCommands :
          LET r == engine(state, action, NULL)
              i == IndexOf(state.machines, action.payload.machineId)
          IN  IF i = 0 THEN r.error # NULL /\ r.state = state
              ELSE /\ r.error = NULL
                   /\ r.state.machines
                         = [state.machines EXCEPT ![i].enabled = ~state.machines[i].enabled]
                   /\ r.state.energy
                         = [produced |-> OutputOf(state.generators, DOMAIN state.generators),
                            consumed |-> EnabledDraw(r.state.machines)]
                   /\ [r.state EXCEPT !.machines = state.machines,
                                      !.energy = state.energy] = state

\* the crank was removed and the second machine switched off: the tick's
\* deficit walk passed over it and blocked the first machine
C40_Witness ==
    /\ calls = 3
    /\ state.generators = << >>
    /\ Len(state.machines) = 2
    /\ state.machines[1].status = "blocked"
    /\ ~state.machines[2].enabled
    /\ state.machines[2].status = "working"
    /\ state.machines[2].recipeId = "planks"
    /\ state.energy = [produced |-> 0, consumed |-> 0]

=============================================================================
